---------------------------- MODULE Spec2Model ----------------------------
(***************************************************************************)
(* Decision pipeline of the smart-city controller: the backend's           *)
(* measurement store (routes/ingest.ts), its decision log and consensus    *)
(* anchoring (routes/control.ts, services/hedera.ts), the agents' tick     *)
(* functions (graphs/trafficGraph.ts, graphs/railGraph.ts), the supervisor *)
(* (graphs/supervisorGraph.ts) and the loop that runs them (index.ts).     *)
(*                                                                         *)
(* The backend is one Node.js process: a handler runs without interruption *)
(* from one await on I/O to the next, so every backend action below is one *)
(* such segment.  The same holds for the agents' process.                  *)
(***************************************************************************)
EXTENDS Integers, Sequences, FiniteSets, TLC

(***************************************************************************)
(* Bounds of the model.                                                    *)
(***************************************************************************)
\* Measurements POST /ingest accepts; calls of GET /ingest/next by the
\* consumers; requests the decision routes serve; the largest ts a request
\* body carries; measurements the sensors send while the ticks run; ticks
\* that throw because the backend is unreachable or its answer is lost.
MaxIngest == 3
MaxDequeueCalls == 4
MaxRequests == 2
MaxTs == 2
MaxTickItems == 1
MaxThrows == 1

(***************************************************************************)
(* Values of the model.                                                    *)
(***************************************************************************)
Kinds == {"traffic", "rail"}
Locations == {"A", "B"}
Consumers == {"c1", "c2"}

\* JavaScript's null / undefined for an object-valued slot.  A numeric slot
\* that is undefined (topicId, sequenceNumber, consensusTimestamp) holds 0.
Null == [nil |-> TRUE]

\* Payloads of a measurement (Measurement.value): the queue lengths of a
\* junction, the ETA of a train.  A negative reading is what a faulty sensor
\* sends; the agents' observation schemas reject it.
TrafficValues ==
  { [queue_ns |-> 25, queue_ew |-> 10],
    [queue_ns |-> 10, queue_ew |-> 25],
    [queue_ns |-> 10, queue_ew |-> 10],
    [queue_ns |-> -1, queue_ew |-> 10] }
RailValues == { [eta_ms |-> 18000], [eta_ms |-> 25000], [eta_ms |-> -1] }
ValuesOf(kind) == IF kind = "traffic" THEN TrafficValues ELSE RailValues
SampleValue(kind) ==
  IF kind = "traffic" THEN [queue_ns |-> 25, queue_ew |-> 10]
  ELSE [eta_ms |-> 18000]

\* What an inference oracle answers: a plan or command, which the oracle's
\* callers have yet to validate, or nothing at all (network error, timeout,
\* HTTP error status).
Unreachable == [unreachable |-> TRUE]
TrafficPlans ==
  { [ns |-> "green", eo |-> "red", durationSec |-> 20],
    [ns |-> "red", eo |-> "green", durationSec |-> 20],
    [ns |-> "green", eo |-> "green", durationSec |-> 0] }
RailCommands == { [state |-> "CLOSED"], [state |-> "OPENING"],
                  [state |-> "HALF"] }
ExtOutcome(agent) ==
  IF agent = "traffic" THEN [ns |-> "green", eo |-> "red", durationSec |-> 30]
  ELSE [state |-> "CLOSED"]
InvalidOutcome(agent) ==
  IF agent = "traffic" THEN [ns |-> "green", eo |-> "green", durationSec |-> 0]
  ELSE [state |-> "HALF"]
OutcomesOf(kind) ==
  (IF kind = "traffic" THEN TrafficPlans ELSE RailCommands)
    \cup {ExtOutcome(kind)}
OracleAnswers(kind) == OutcomesOf(kind) \cup {Unreachable}

VARIABLES
  measurements,      \* mem.measurements: the pending queue, all kinds together
  recent,            \* mem.recent: kind -> recent history
  latestByLocation,  \* mem.latestByLocation: kind -> location -> measurement
  nextMid,           \* identity of the next Measurement object
  ingested,          \* history: per kind, the ids ingested, in order
  delivered,         \* history: the items GET /ingest/next returned, in order
  dequeueCalls,      \* number of GET /ingest/next calls made so far
  decisions,         \* mem.decisions: the DecisionLog
  topicCache,        \* services/hedera.ts topicCache: agent -> topic, 0 if none
  credentials,       \* HEDERA_ACCOUNT_ID and HEDERA_PRIVATE_KEY are both set
  envTopics,         \* HEDERA_TOPIC_TRAFFIC and HEDERA_TOPIC_RAIL are set
  consensusWaitMs,   \* CONSENSUS_LOG_WAIT_MS as POST /decisions/log reads it
  now,               \* Date.now(); a request body may carry its own ts
  reqs,              \* backend handlers suspended at an await
  subs,              \* submitDecisionToConsensus calls in flight
  ledger,            \* the consensus ledger: the messages it accepted
  topicsCreated,     \* the consensus ledger: number of topics created
  nextDid,           \* identity of the next DecisionLog object
  nextRid,           \* identity of the next backend request
  inserted,          \* history: the entries recordDecision pushed, as pushed
  responses,         \* history: the answers of the backend, by request
  inferenceUrl,      \* cfg.inferenceUrl is set: a secondary route exists
  usesMockController,\* cfg.controllerUrl is the backend's own /control/<kind>
  hcsTopicId,        \* HCS_TOPIC_ID_SUPERVISOR: "" (unset), a malformed id, or
                     \* a topic id
  agentCredentials,  \* HEDERA_ACCOUNT_ID and HEDERA_PRIVATE_KEY are set in the
                     \* agents' process
  lastPhase,         \* trafficGraph.ts lastPhase
  lastBarrierState,  \* railGraph.ts lastBarrierState
  tick,              \* kind -> the locals of the tick function in progress
  controller,        \* kind -> the outcome the physical controller applied
  lastAnswer,        \* history: the last answer of a route that reads the
                     \* store or the log, or of a POST /ingest refused
  loop,              \* index.ts loop(): the locals of the invocation running
  parked             \* the locals (loop's and its ticks') of an invocation of
                     \* loop() that awaits while another one runs, or Null

storeVars == <<measurements, recent, latestByLocation, nextMid, ingested,
               delivered, dequeueCalls>>
envVars == <<credentials, envTopics, consensusWaitMs>>
backendVars == <<decisions, topicCache, now, reqs, subs, ledger, topicsCreated,
                 nextDid, nextRid, inserted, responses>>
cfgVars == <<inferenceUrl, usesMockController, hcsTopicId, agentCredentials>>
agentVars == <<lastPhase, lastBarrierState, tick, controller>>
readVars == <<lastAnswer>>
loopVars == <<loop, parked>>
auxVars == <<readVars, loopVars>>
vars == <<storeVars, envVars, backendVars, cfgVars, agentVars, auxVars>>

(***************************************************************************)
(* Helpers on sequences.                                                   *)
(***************************************************************************)
Max(a, b) == IF a >= b THEN a ELSE b

RECURSIVE SelectKind(_, _)
\* The measurements of one kind, in queue order.
SelectKind(ms, kind) ==
  IF ms = <<>> THEN <<>>
  ELSE IF Head(ms).kind = kind
       THEN <<Head(ms)>> \o SelectKind(Tail(ms), kind)
       ELSE SelectKind(Tail(ms), kind)

Ids(ms) == [i \in 1..Len(ms) |-> ms[i].id]

\* Array.prototype.splice(idx, 1) on a 1-based sequence.
spliceOne(ms, idx) == SubSeq(ms, 1, idx - 1) \o SubSeq(ms, idx + 1, Len(ms))

(***************************************************************************)
(* routes/ingest.ts                                                        *)
(***************************************************************************)
\* The fields of `names` the payload has; the largest of their values; the
\* value of the first field of the sequence `names` that the payload has
\* (a chain of ??).
present(data, names) == names \cap DOMAIN data
maxOf(data, fields) ==
  CHOOSE x \in {data[f] : f \in fields} : \A f \in fields : data[f] <= x
firstOf(data, names) ==
  data[names[CHOOSE i \in 1..Len(names) :
               /\ names[i] \in DOMAIN data
               /\ \A j \in 1..(i - 1) : names[j] \notin DOMAIN data]]

\* deriveMetric(kind, raw) for a payload that is an object with numeric
\* fields: <<n>> for the number n, <<>> for null.  For traffic the largest
\* of the congestion and queue fields; if there is none, the progress (a
\* value up to 1 is a fraction and is scaled to 100); if there is none, the
\* largest of the wait fields.  For rail the ETA.
deriveMetric(kind, data) ==
  LET candidates ==
        present(data, {"congestion", "congestion_index", "congestionIndex",
                       "avg_queue_len_NS", "avg_queue_len_EW", "queue_ns",
                       "queue_ew", "queueNS", "queueEW", "avg_queue_len",
                       "queue"})
      progresses ==
        present(data, {"progress", "flow", "utilisation", "utilization"})
      progress ==
        firstOf(data, <<"progress", "flow", "utilisation", "utilization">>)
      waits ==
        present(data, {"wait_time_NS", "wait_time_EW", "wait_ns", "wait_ew"})
      etas == present(data, {"etaMs", "eta_ms", "eta"})
  IN  IF kind = "traffic" /\ candidates # {}
      THEN <<maxOf(data, candidates)>>
      ELSE IF kind = "traffic" /\ progresses # {}
      THEN <<IF progress <= 1 THEN progress * 100 ELSE progress>>
      ELSE IF kind = "traffic" /\ waits # {}
      THEN <<maxOf(data, waits)>>
      ELSE IF kind = "rail" /\ etas # {}
      THEN <<firstOf(data, <<"etaMs", "eta_ms", "eta">>)>>
      ELSE <<>>

\* item.metric as POST /ingest sets it, for a payload that has a metric
\* (item.metric stays unset for one that has none).
metricOf(kind, value) == deriveMetric(kind, value)[1]

RECENT_KEEP == 200

\* A bucket that drops the newest entries beyond `keep`.
pushRecentKeepOldest(bucket, item) ==
  LET pushed == Append(bucket, item)
  IN  IF Len(pushed) > RECENT_KEEP THEN SubSeq(pushed, 1, RECENT_KEEP)
      ELSE pushed

\* upsertRecent's history bucket: push, then drop the oldest beyond `keep`.
pushRecent(bucket, item) ==
  LET pushed == Append(bucket, item)
  IN  IF Len(pushed) > RECENT_KEEP
      THEN SubSeq(pushed, Len(pushed) - RECENT_KEEP + 1, Len(pushed))
      ELSE pushed

\* POST /ingest {kind, location, value}: the request is complete (a request
\* that lacks a field is answered 400 and changes nothing).
Ingest(kind, location, value) ==
  /\ nextMid <= MaxIngest
  /\ LET item == [id |-> nextMid, kind |-> kind, location |-> location,
                  value |-> value, metric |-> metricOf(kind, value)]
     IN  /\ measurements' = Append(measurements, item)
         /\ recent' = [recent EXCEPT ![kind] = pushRecent(@, item)]
         /\ latestByLocation' =
              [latestByLocation EXCEPT ![kind][location] = item]
         /\ ingested' = [ingested EXCEPT ![kind] = Append(@, item.id)]
  /\ nextMid' = nextMid + 1
  /\ UNCHANGED auxVars
  /\ UNCHANGED <<delivered, dequeueCalls, envVars, backendVars, cfgVars,
                 agentVars>>

findIndexLast(ms, kind) ==
  IF \E i \in 1..Len(ms) : ms[i].kind = kind
  THEN CHOOSE i \in 1..Len(ms) :
         /\ ms[i].kind = kind
         /\ \A j \in (i + 1)..Len(ms) : ms[j].kind # kind
  ELSE 0

\* A lookup that considers the head of the queue only.
findIndexHead(ms, kind) ==
  IF ms # <<>> /\ ms[1].kind = kind THEN 1 ELSE 0

\* mem.measurements.findIndex((m) => m.kind === kind), 1-based; 0 for -1.
findIndex(ms, kind) ==
  IF \E i \in 1..Len(ms) : ms[i].kind = kind
  THEN CHOOSE i \in 1..Len(ms) :
         /\ ms[i].kind = kind
         /\ \A j \in 1..(i - 1) : ms[j].kind # kind
  ELSE 0

\* The item GET /ingest/next answers with, Null for {item: null}.
nextItem(ms, kind) ==
  IF findIndex(ms, kind) = 0 THEN Null ELSE ms[findIndex(ms, kind)]

\* The pending queue GET /ingest/next leaves.
afterNext(ms, kind) ==
  IF findIndex(ms, kind) = 0 THEN ms ELSE spliceOne(ms, findIndex(ms, kind))

\* A handler that also takes the item out of the history and the cache.
DequeueNextForgetting(kind, consumer) ==
  /\ dequeueCalls < MaxDequeueCalls
  /\ dequeueCalls' = dequeueCalls + 1
  /\ measurements' = afterNext(measurements, kind)
  /\ delivered' =
       IF nextItem(measurements, kind) = Null THEN delivered
       ELSE Append(delivered, [kind |-> kind, to |-> consumer,
                               item |-> nextItem(measurements, kind)])
  /\ recent' = [recent EXCEPT ![kind] =
       SelectSeq(@, LAMBDA m : m # nextItem(measurements, kind))]
  /\ latestByLocation' =
       [latestByLocation EXCEPT ![kind] =
          [l \in Locations |->
             IF @[l] = nextItem(measurements, kind) THEN Null ELSE @[l]]]
  /\ UNCHANGED auxVars
  /\ UNCHANGED <<nextMid, ingested, envVars, backendVars, cfgVars, agentVars>>

\* GET /ingest/next?kind=k, called by `consumer`: one synchronous handler.
DequeueNext(kind, consumer) ==
  /\ dequeueCalls < MaxDequeueCalls
  /\ dequeueCalls' = dequeueCalls + 1
  /\ measurements' = afterNext(measurements, kind)
  /\ delivered' =
       IF nextItem(measurements, kind) = Null THEN delivered
       ELSE Append(delivered, [kind |-> kind, to |-> consumer,
                               item |-> nextItem(measurements, kind)])
  /\ UNCHANGED auxVars
  /\ UNCHANGED <<recent, latestByLocation, nextMid, ingested, envVars,
                 backendVars, cfgVars, agentVars>>


(***************************************************************************)
(* routes/ingest.ts: POST /ingest on any body, GET /ingest/snapshot        *)
(***************************************************************************)
\* A handler that does not ask for the location.
ingestAcceptsWithoutLocation(kind, location, value) ==
  kind # "" /\ value # Null

\* The body passes `!kind || !location || typeof value === "undefined"`: ""
\* is a kind or location that is absent or empty, Null a value that is
\* absent.
ingestAccepts(kind, location, value) ==
  kind # "" /\ location # "" /\ value # Null

\* POST /ingest on any body: 400 and nothing else when a field is missing,
\* else the measurement is stored.
PostIngest(kind, location, value) ==
  IF ingestAccepts(kind, location, value)
  THEN Ingest(kind, location, value)
  ELSE /\ lastAnswer' =
            [route |-> "ingest", status |-> 400, kind |-> kind,
             location |-> location, value |-> value]
       /\ UNCHANGED <<storeVars, envVars, backendVars, cfgVars, agentVars,
                      loopVars>>

\* Math.max(1, Math.min(500, limitRaw)); 50 when the query has no limit.
snapshotLimit(given, limitRaw) ==
  IF ~given THEN 50
  ELSE Max(1, IF limitRaw < 500 THEN limitRaw ELSE 500)

\* Array.prototype.splice(-limit) would leave the bucket without its tail.
bucketAfterSplice(bucket, limit) ==
  SubSeq(bucket, 1, Max(0, Len(bucket) - limit))

\* Array.prototype.slice leaves the array it is called on as it is.
bucketAfterSlice(bucket, limit) == bucket

\* historyBucket.slice(-limit)
sliceLast(bucket, limit) ==
  SubSeq(bucket, Max(1, Len(bucket) - limit + 1), Len(bucket))

\* toSnapshotEntry; `id` is the identity of the Measurement it was made
\* from.
toSnapshotEntry(entry) ==
  [id |-> entry.id, location |-> entry.location, value |-> entry.metric,
   metric |-> entry.metric, details |-> entry.value]

\* An answer that lists the whole history as the latest values.
latestOfHistory(kind) ==
  {toSnapshotEntry(recent[kind][i]) : i \in 1..Len(recent[kind])}

\* Array.from(latestMap.values()).map(toSnapshotEntry), without its order.
latestEntries(kind) ==
  {toSnapshotEntry(latestByLocation[kind][l]) :
     l \in {m \in Locations : latestByLocation[kind][m] # Null}}

\* GET /ingest/snapshot?kind=&limit=: one synchronous handler.  lastAnswer
\* notes the answer and, as history, the length of the pending queue at the
\* call.
GetSnapshot(kind, given, limitRaw) ==
  /\ lastAnswer' =
       [route |-> "snapshot", kind |-> kind,
        limit |-> snapshotLimit(given, limitRaw),
        latest |-> latestEntries(kind),
        history |->
          [i \in 1..Len(sliceLast(recent[kind],
                                  snapshotLimit(given, limitRaw))) |->
             toSnapshotEntry(sliceLast(recent[kind],
                                       snapshotLimit(given, limitRaw))[i])],
        pending |-> Len(measurements)]
  /\ recent' = [recent EXCEPT ![kind] =
                  bucketAfterSlice(@, snapshotLimit(given, limitRaw))]
  /\ UNCHANGED <<measurements, latestByLocation, nextMid, ingested, delivered,
                 dequeueCalls, envVars, backendVars, cfgVars, agentVars,
                 loopVars>>

\* deriveMetric is applied to a payload, as POST /ingest and toSnapshotEntry
\* do; the result is kept as the last answer.
MetricDerived(kind, data) ==
  /\ lastAnswer' = [route |-> "metric", kind |-> kind, data |-> data,
                    metric |-> deriveMetric(kind, data)]
  /\ UNCHANGED <<storeVars, envVars, backendVars, cfgVars, agentVars,
                 loopVars>>
(***************************************************************************)
(* routes/control.ts: the DecisionLog                                      *)
(***************************************************************************)
DECISION_HISTORY_LIMIT == 1000

\* A DecisionLog object as a handler builds it, its consensus fields
\* undefined.  `id` is the identity of the object.  The opaque fields the
\* handlers copy through (observation, status, confidence, actionIndex,
\* policyMetadata) are left out; `failures` is reasoning.failures.
newEntry(did, agent, location, source, decision, ts, failures) ==
  [id |-> did, agent |-> agent, location |-> location, source |-> source,
   decision |-> decision, ts |-> ts, failures |-> failures,
   topicId |-> 0, sequenceNumber |-> 0, consensusTimestamp |-> 0]

\* The three assignments that copy a ConsensusLogResult into an entry.
withConsensus(entry, result) ==
  [entry EXCEPT !.topicId = result.topicId,
                !.sequenceNumber = result.sequenceNumber,
                !.consensusTimestamp = result.consensusTimestamp]

recordDecisionKeepOldest(log, entry) ==
  LET pushed == Append(log, entry)
  IN  IF Len(pushed) > DECISION_HISTORY_LIMIT
      THEN SubSeq(pushed, 1, DECISION_HISTORY_LIMIT)
      ELSE pushed

\* recordDecision: push, then splice the oldest entries beyond the limit.
recordDecision(log, entry) ==
  LET pushed == Append(log, entry)
  IN  IF Len(pushed) > DECISION_HISTORY_LIMIT
      THEN SubSeq(pushed, Len(pushed) - DECISION_HISTORY_LIMIT + 1,
                  Len(pushed))
      ELSE pushed

lateUpdateDropped(log, did, result) == log

\* A callback that finds its entry by nothing: it writes to every entry.
lateUpdateAll(log, did, result) ==
  [i \in 1..Len(log) |-> withConsensus(log[i], result)]

\* consensusWithUpdate's then-callback running after the entry was recorded:
\* it assigns to the entry object, which the log holds by reference.
lateUpdate(log, did, result) ==
  [i \in 1..Len(log) |->
     IF log[i].id = did THEN withConsensus(log[i], result) ELSE log[i]]

(***************************************************************************)
(* services/hedera.ts                                                      *)
(***************************************************************************)
\* The topic HEDERA_TOPIC_<AGENT> names.
envTopic(agent) == IF agent = "traffic" THEN 901 ELSE 902

\* A submission that does not look at the credentials.
submitStageWithoutCredentials(agent) ==
  IF topicCache[agent] # 0 \/ envTopics THEN "msg" ELSE "topic"

\* How far submitDecisionToConsensus gets before it first waits on the
\* ledger: nowhere without credentials (it resolves to null), to the message
\* submission when ensureTopic finds a topic, else to the topic creation.
submitStage(agent) ==
  IF ~credentials THEN "disabled"
  ELSE IF topicCache[agent] # 0 \/ envTopics THEN "msg"
  ELSE "topic"

\* The topic ensureTopic returns without creating one, 0 if it must create.
knownTopic(agent) ==
  IF topicCache[agent] # 0 THEN topicCache[agent]
  ELSE IF envTopics THEN envTopic(agent)
  ELSE 0

\* topicCache after ensureTopic's synchronous part.
ensureTopicCache(agent) ==
  IF credentials /\ topicCache[agent] = 0 /\ envTopics
  THEN [topicCache EXCEPT ![agent] = envTopic(agent)]
  ELSE topicCache

\* The submission a handler starts for its entry; `rid` is the request whose
\* handler started it.
newSub(did, agent, rid, route) ==
  [did |-> did, agent |-> agent, rid |-> rid, route |-> route,
   stage |-> submitStage(agent), topicId |-> knownTopic(agent)]

\* The sequence number the ledger gives the next message of a topic.
nextSequenceNumber(topic) ==
  Cardinality({i \in 1..Len(ledger) : ledger[i].topicId = topic}) + 1

Waiting(rid) == \E r \in reqs : r.rid = rid
ReqOf(rid) == CHOOSE r \in reqs : r.rid = rid

(***************************************************************************)
(* The answer the backend gives a request.  `first` tells what ended the   *)
(* handler's wait: "none" (it did not wait), "submission" (the ledger      *)
(* confirmed), "failure" (the submission threw) or "timer".                *)
(***************************************************************************)
response(rid, route, status, did, outcome, consensus, pending, first) ==
  [rid |-> rid, route |-> route, status |-> status, did |-> did,
   outcome |-> outcome, consensus |-> consensus, pending |-> pending,
   first |-> first, waitMs |-> consensusWaitMs, anchoring |-> credentials]

raceResultNeverPending(first, result) ==
  [consensus |-> IF first = "submission" THEN result ELSE Null,
   pending |-> FALSE]

\* POST /decisions/log after Promise.race: `consensus` and `consensusPending`
\* of the answer.
raceResult(first, result) ==
  [consensus |-> IF first = "submission" THEN result ELSE Null,
   pending |-> first = "timer"]

(***************************************************************************)
(* routes/control.ts: the handlers.  A route is called by an agent's tick  *)
(* (the caller is the tick's kind) or by any other client (External).      *)
(***************************************************************************)
External == "ext"

\* A tick's request reaches the backend once, while the tick awaits it.
CanSend(caller, pc) ==
  IF caller = External THEN TRUE
  ELSE tick[caller].pc = pc /\ tick[caller].rid = 0

NoteRequest(caller, rid) ==
  IF caller = External THEN UNCHANGED agentVars
  ELSE /\ tick' = [tick EXCEPT ![caller].rid = rid]
       /\ UNCHANGED <<lastPhase, lastBarrierState, controller>>

\* POST /traffic/infer, POST /rail/infer up to `await inferTraffic(...)`:
\* the observation is well-formed (else the answer is 400, nothing changes).
PostInfer(agent, caller, location, source) ==
  /\ nextRid <= MaxRequests
  /\ CanSend(caller, "primary")
  /\ reqs' = reqs \cup
       {[rid |-> nextRid, route |-> "infer", agent |-> agent,
         caller |-> caller, location |-> location, source |-> source,
         stage |-> "oracle", entry |-> Null]}
  /\ nextRid' = nextRid + 1
  /\ NoteRequest(caller, nextRid)
  /\ UNCHANGED auxVars
  /\ UNCHANGED <<storeVars, envVars, cfgVars, decisions, topicCache, now,
                 subs, ledger, topicsCreated, nextDid, inserted, responses>>

\* The inference service answers the backend.  No answer: the handler's
\* catch replies 502.  An answer: the handler builds the decision from it as
\* it is and calls submitDecisionToConsensus; without credentials that
\* resolves to null at once and the handler records and replies.
OracleAnswer(rid, answer) ==
  /\ Waiting(rid)
  /\ ReqOf(rid).stage = "oracle"
  /\ answer \in OracleAnswers(ReqOf(rid).agent)
  /\ LET r == ReqOf(rid)
         entry == newEntry(nextDid, r.agent, r.location, r.source, answer,
                           now, <<>>)
     IN  IF answer = Unreachable
         THEN /\ responses' = responses \cup
                   {response(rid, "infer", 502, 0, Null, Null, FALSE, "none")}
              /\ reqs' = reqs \ {r}
              /\ UNCHANGED <<decisions, inserted, subs, topicCache, nextDid>>
         ELSE IF submitStage(r.agent) = "disabled"
         THEN /\ decisions' = recordDecision(decisions, entry)
              /\ inserted' = Append(inserted, entry)
              /\ responses' = responses \cup
                   {response(rid, "infer", 200, entry.id, answer, Null,
                             FALSE, "none")}
              /\ reqs' = reqs \ {r}
              /\ nextDid' = nextDid + 1
              /\ UNCHANGED <<subs, topicCache>>
         ELSE /\ reqs' = (reqs \ {r}) \cup
                   {[r EXCEPT !.stage = "consensus", !.entry = entry]}
              /\ subs' = subs \cup {newSub(entry.id, r.agent, rid, "infer")}
              /\ topicCache' = ensureTopicCache(r.agent)
              /\ nextDid' = nextDid + 1
              /\ UNCHANGED <<decisions, inserted, responses>>
  /\ UNCHANGED auxVars
  /\ UNCHANGED <<storeVars, envVars, cfgVars, agentVars, now, ledger,
                 topicsCreated, nextRid>>

logResultIgnoringZero(waitMs, first, result) == raceResult(first, result)

\* `consensus` and `consensusPending` of POST /decisions/log's answer.
logResult(waitMs, first, result) ==
  IF waitMs = 0 THEN [consensus |-> Null, pending |-> TRUE]
  ELSE raceResult(first, result)

\* POST /decisions/log up to its only await, the race; with a wait budget of
\* 0, or without credentials (the submission promise is already resolved to
\* null), the handler runs to its end.  ts = 0 stands for a payload without
\* ts.
PostLog(agent, caller, location, source, decision, ts, failures) ==
  /\ nextRid <= MaxRequests
  /\ CanSend(caller, "log")
  /\ LET entry == newEntry(nextDid, agent, location, source, decision,
                           IF ts > 0 THEN ts ELSE now, failures)
         stage == submitStage(agent)
         res == logResult(consensusWaitMs, "none", Null)
     IN  /\ subs' = IF stage = "disabled" THEN subs
                    ELSE subs \cup {newSub(entry.id, agent, nextRid, "log")}
         /\ topicCache' = ensureTopicCache(agent)
         /\ IF consensusWaitMs = 0 \/ stage = "disabled"
            THEN /\ decisions' = recordDecision(decisions, entry)
                 /\ inserted' = Append(inserted, entry)
                 /\ responses' = responses \cup
                      {response(nextRid, "log", 200, entry.id, Null,
                                res.consensus, res.pending, "none")}
                 /\ reqs' = reqs
            ELSE /\ reqs' = reqs \cup
                      {[rid |-> nextRid, route |-> "log", agent |-> agent,
                        caller |-> caller, location |-> location,
                        source |-> source, stage |-> "race", entry |-> entry]}
                 /\ UNCHANGED <<decisions, inserted, responses>>
  /\ nextRid' = nextRid + 1
  /\ nextDid' = nextDid + 1
  /\ NoteRequest(caller, nextRid)
  /\ UNCHANGED auxVars
  /\ UNCHANGED <<storeVars, envVars, cfgVars, now, ledger, topicsCreated>>

\* The race's timer fires before the submission settles: the handler
\* records the entry as it is and replies; the submission goes on.
TimerFire(rid) ==
  /\ Waiting(rid)
  /\ ReqOf(rid).stage = "race"
  /\ LET r == ReqOf(rid)
         res == logResult(consensusWaitMs, "timer", Null)
     IN  /\ decisions' = recordDecision(decisions, r.entry)
         /\ inserted' = Append(inserted, r.entry)
         /\ responses' = responses \cup
              {response(rid, "log", 200, r.entry.id, Null, res.consensus,
                        res.pending, "timer")}
         /\ reqs' = reqs \ {r}
  /\ UNCHANGED auxVars
  /\ UNCHANGED <<storeVars, envVars, cfgVars, agentVars, topicCache, now,
                 subs, ledger, topicsCreated, nextDid, nextRid>>
\* The handler's continuation when submitDecisionToConsensus resolves to
\* `result`: an inference route copies it into its decision, records and
\* replies; POST /decisions/log's then-callback copies it into the entry,
\* and the handler, if it is still in the race, records and replies.
Resolved(sub, result) ==
  IF sub.route = "infer"
  THEN LET r == ReqOf(sub.rid)
           entry == withConsensus(r.entry, result)
       IN  /\ decisions' = recordDecision(decisions, entry)
           /\ inserted' = Append(inserted, entry)
           /\ responses' = responses \cup
                {response(r.rid, "infer", 200, entry.id, entry.decision,
                          result, FALSE, "submission")}
           /\ reqs' = reqs \ {r}
  ELSE IF Waiting(sub.rid)
  THEN LET r == ReqOf(sub.rid)
           entry == withConsensus(r.entry, result)
           res == logResult(consensusWaitMs, "submission", result)
       IN  /\ decisions' = recordDecision(decisions, entry)
           /\ inserted' = Append(inserted, entry)
           /\ responses' = responses \cup
                {response(r.rid, "log", 200, entry.id, Null, res.consensus,
                          res.pending, "submission")}
           /\ reqs' = reqs \ {r}
  ELSE /\ decisions' = lateUpdate(decisions, sub.did, result)
       /\ UNCHANGED <<inserted, responses, reqs>>

\* The handler's continuation when submitDecisionToConsensus throws: an
\* inference route's catch replies 502; POST /decisions/log's catch-callback
\* turns the error into null, and the handler, if it is still in the race,
\* records and replies.
Rejected(sub) ==
  IF sub.route = "infer"
  THEN LET r == ReqOf(sub.rid)
       IN  /\ responses' = responses \cup
                {response(r.rid, "infer", 502, sub.did, Null, Null, FALSE,
                          "failure")}
           /\ reqs' = reqs \ {r}
           /\ UNCHANGED <<decisions, inserted>>
  ELSE IF Waiting(sub.rid)
  THEN LET r == ReqOf(sub.rid)
           res == logResult(consensusWaitMs, "failure", Null)
       IN  /\ decisions' = recordDecision(decisions, r.entry)
           /\ inserted' = Append(inserted, r.entry)
           /\ responses' = responses \cup
                {response(r.rid, "log", 200, r.entry.id, Null, res.consensus,
                          res.pending, "failure")}
           /\ reqs' = reqs \ {r}
  ELSE UNCHANGED <<decisions, inserted, responses, reqs>>

\* The ledger answers ensureTopic's TopicCreateTransaction.
TopicCreated(did, ok) ==
  /\ \E sub \in subs :
       /\ sub.did = did
       /\ sub.stage = "topic"
       /\ IF ok
          THEN /\ topicsCreated' = topicsCreated + 1
               /\ topicCache' =
                    [topicCache EXCEPT ![sub.agent] = topicsCreated + 1]
               /\ subs' = (subs \ {sub}) \cup
                    {[sub EXCEPT !.stage = "msg",
                                 !.topicId = topicsCreated + 1]}
               /\ UNCHANGED <<decisions, inserted, responses, reqs>>
          ELSE /\ subs' = subs \ {sub}
               /\ Rejected(sub)
               /\ UNCHANGED <<topicsCreated, topicCache>>
  /\ UNCHANGED auxVars
  /\ UNCHANGED <<storeVars, envVars, cfgVars, agentVars, now, ledger,
                 nextDid, nextRid>>

\* The ledger answers the TopicMessageSubmitTransaction (execute, receipt
\* and record).
MessageDone(did, ok) ==
  /\ \E sub \in subs :
       /\ sub.did = did
       /\ sub.stage = "msg"
       /\ subs' = subs \ {sub}
       /\ IF ok
          THEN /\ ledger' = Append(ledger, [topicId |-> sub.topicId,
                                            did |-> did])
               /\ Resolved(sub,
                    [topicId |-> sub.topicId,
                     sequenceNumber |-> nextSequenceNumber(sub.topicId),
                     consensusTimestamp |-> now])
          ELSE /\ ledger' = ledger
               /\ Rejected(sub)
  /\ UNCHANGED auxVars
  /\ UNCHANGED <<storeVars, envVars, cfgVars, agentVars, now, topicCache,
                 topicsCreated, nextDid, nextRid>>

(***************************************************************************)
(* routes/control.ts: GET /decisions/latest                                *)
(***************************************************************************)
\* String.prototype.toLowerCase on the strings of the model.
toLowerCase(s) ==
  CASE s = "A" -> "a"
    [] s = "B" -> "b"
    [] OTHER -> s

\* A key that keeps the case of the location.
keyOfExact(entry) ==
  <<entry.agent,
    IF entry.location = "" THEN "__unknown__" ELSE entry.location>>

\* The map key of an entry; location "" is an undefined location.
keyOf(entry) ==
  <<entry.agent,
    IF entry.location = "" THEN "__unknown__" ELSE toLowerCase(entry.location)>>

RECURSIVE latestByKey(_, _, _)
\* The loop over mem.decisions that fills the Map latestByKey; `acc` holds
\* the Map's values in the order their keys were first set.  agentFilter ""
\* is no filter.
latestByKey(log, agentFilter, acc) ==
  IF log = <<>> THEN acc
  ELSE LET entry == Head(log)
           hit == {i \in 1..Len(acc) : keyOf(acc[i]) = keyOf(entry)}
       IN  IF agentFilter # "" /\ entry.agent # agentFilter
           THEN latestByKey(Tail(log), agentFilter, acc)
           ELSE IF hit = {}
           THEN latestByKey(Tail(log), agentFilter, Append(acc, entry))
           ELSE LET p == CHOOSE i \in hit : TRUE
                IN  IF entry.ts > acc[p].ts
                    THEN latestByKey(Tail(log), agentFilter,
                                     [acc EXCEPT ![p] = entry])
                    ELSE latestByKey(Tail(log), agentFilter, acc)

\* One step of a stable sort by descending ts.
insertDesc(sorted, e) ==
  LET k == Cardinality({i \in 1..Len(sorted) : sorted[i].ts >= e.ts})
  IN  SubSeq(sorted, 1, k) \o <<e>> \o SubSeq(sorted, k + 1, Len(sorted))

RECURSIVE sortByTsDesc(_)
\* items.sort((a, b) => b.ts - a.ts)
sortByTsDesc(s) ==
  IF s = <<>> THEN <<>>
  ELSE insertDesc(sortByTsDesc(SubSeq(s, 1, Len(s) - 1)), s[Len(s)])

\* One item of the answer; `id` is the identity of the entry it was made
\* from.
latestPayload(entry) ==
  [id |-> entry.id, agent |-> entry.agent, location |-> entry.location,
   source |-> entry.source, ts |-> entry.ts, decision |-> entry.decision,
   consensus |->
     IF entry.topicId # 0
     THEN [topicId |-> entry.topicId,
           sequenceNumber |-> entry.sequenceNumber,
           consensusTimestamp |-> entry.consensusTimestamp]
     ELSE Null]

\* The items GET /decisions/latest?agent=&limit= answers with; limit 0 is no
\* limit.
latestDecisions(log, agentFilter, limit) ==
  LET items == sortByTsDesc(latestByKey(log, agentFilter, <<>>))
      cut == IF limit > 0 /\ limit < Len(items) THEN limit ELSE Len(items)
  IN  [i \in 1..cut |-> latestPayload(items[i])]


\* GET /decisions/latest?agent=&limit=: the handler reads mem.decisions and
\* answers; lastAnswer notes the answer and the log it was computed from.
GetLatest(agentFilter, limit) ==
  /\ lastAnswer' =
       [route |-> "latest", agentFilter |-> agentFilter, limit |-> limit,
        items |-> latestDecisions(decisions, agentFilter, limit),
        log |-> decisions]
  /\ UNCHANGED <<storeVars, envVars, backendVars, cfgVars, agentVars,
                 loopVars>>
(***************************************************************************)
(* graphs/trafficGraph.ts, graphs/railGraph.ts                             *)
(***************************************************************************)
\* The configuration index.ts passes to every tick.
threshold == 20
d0 == 15
d1 == 30
closeLeadMs == 20000

\* TrafficPlanSchema / BarrierSchema accept the outcome.
validOutcome(kind, outcome) ==
  IF kind = "traffic"
  THEN /\ outcome.ns \in {"red", "amber", "green"}
       /\ outcome.eo \in {"red", "amber", "green"}
       /\ outcome.durationSec > 0
  ELSE outcome.state \in {"OPEN", "CLOSING", "CLOSED", "OPENING"}

\* A rule whose ties favour east-west.
fallbackPlanTiesToEw(queueNS, queueEW) ==
  LET duration == IF Max(queueNS, queueEW) > threshold THEN d1 ELSE d0
  IN  IF queueNS > queueEW
      THEN [ns |-> "green", eo |-> "red", durationSec |-> duration]
      ELSE [ns |-> "red", eo |-> "green", durationSec |-> duration]

\* fallbackPlan(queueNS, queueEW, cfg).plan
fallbackPlan(queueNS, queueEW) ==
  LET duration == IF Max(queueNS, queueEW) > threshold THEN d1 ELSE d0
  IN  IF queueNS >= queueEW
      THEN [ns |-> "green", eo |-> "red", durationSec |-> duration]
      ELSE [ns |-> "red", eo |-> "green", durationSec |-> duration]

\* A rule that closes only when the ETA is below closeLeadMs.
fallbackCommandBelow(eta) ==
  IF eta < closeLeadMs THEN [state |-> "CLOSED"] ELSE [state |-> "OPEN"]

\* fallbackCommand(eta, cfg).command
fallbackCommand(eta) ==
  IF eta <= closeLeadMs THEN [state |-> "CLOSED"] ELSE [state |-> "OPEN"]

\* FallbackPolicy on a measurement's payload, as the ticks call it.
fallbackOutcome(kind, value) ==
  IF kind = "traffic" THEN fallbackPlan(value.queue_ns, value.queue_ew)
  ELSE fallbackCommand(value.eta_ms)

\* buildObservation (traffic) and RailObservationSchema.safeParse (rail) on
\* the payloads of the model: Null when the schema rejects the reading.
buildObservation(kind, value) ==
  IF kind = "traffic"
  THEN IF value.queue_ns >= 0 /\ value.queue_ew >= 0
       THEN [queue_ns |-> value.queue_ns, queue_ew |-> value.queue_ew,
             is_ns_green |-> IF lastPhase = "NS" THEN 1 ELSE 0]
       ELSE Null
  ELSE IF value.eta_ms >= 0
       THEN [eta_ms |-> value.eta_ms,
             barrier_closed |-> IF lastBarrierState = "CLOSED" THEN 1 ELSE 0]
       ELSE Null

\* The locals of a tick function that is not running (an invocation of
\* loop() runs one tick of each kind at a time).  primary, secondary
\* and actuation tell what the route or the controller did in this tick
\* ("none": it was not called); posted is the body of the tick's POST
\* /control/decisions/log.
IdleTick ==
  [pc |-> "idle", item |-> Null, rid |-> 0, observation |-> Null,
   outcome |-> Null, strategy |-> "", decisionSource |-> "",
   backendDecision |-> Null, policyDecision |-> Null, failureReasons |-> <<>>,
   primary |-> "none", secondary |-> "none", actuation |-> "none",
   posted |-> Null]

\* The locals after the synchronous start of a tick that got `item`.
startLocalsFixedPlan(kind, item) ==
  [IdleTick EXCEPT
     !.item = item,
     !.observation = buildObservation(kind, item.value),
     !.outcome = IF kind = "traffic"
                 THEN [ns |-> "green", eo |-> "red", durationSec |-> d0]
                 ELSE [state |-> "OPEN"],
     !.strategy = "fallback",
     !.decisionSource = "fallback",
     !.failureReasons =
        IF kind = "rail" /\ buildObservation(kind, item.value) = Null
        THEN <<"observation_invalid">> ELSE <<>>]

startLocals(kind, item) ==
  LET observation == buildObservation(kind, item.value)
  IN  [IdleTick EXCEPT
         !.item = item,
         !.observation = observation,
         !.outcome = fallbackOutcome(kind, item.value),
         !.strategy = "fallback",
         !.decisionSource = "fallback",
         !.failureReasons =
            IF kind = "rail" /\ observation = Null
            THEN <<"observation_invalid">> ELSE <<>>]

afterPrimaryResponseTrusting(kind, t, data) ==
  [t EXCEPT !.backendDecision = data, !.rid = 0,
            !.primary = IF validOutcome(kind, data.outcome)
                        THEN "valid" ELSE "invalid",
            !.outcome = IF validOutcome(kind, data.outcome)
                        THEN data.outcome ELSE @,
            !.strategy = "policy", !.decisionSource = "policy"]

\* The locals after the backend answered the primary route with `data`:
\* backendDecision is assigned before the plan is validated.
afterPrimaryResponse(kind, t, data) ==
  IF validOutcome(kind, data.outcome)
  THEN [t EXCEPT !.backendDecision = data, !.rid = 0, !.primary = "valid",
                 !.outcome = data.outcome, !.strategy = "policy",
                 !.decisionSource = "policy"]
  ELSE [t EXCEPT !.backendDecision = data, !.rid = 0, !.primary = "invalid",
                 !.failureReasons = Append(@, "backend_inference_error")]

\* The locals after the primary route's request threw.
afterPrimaryError(kind, t) ==
  [t EXCEPT !.rid = 0, !.primary = "error",
            !.failureReasons = Append(@, "backend_inference_error")]

\* The locals after the secondary route: requestTrafficPlan/requestRailPlan
\* validate the answer and throw on an invalid one as on none.
afterSecondary(kind, t, answer) ==
  IF answer # Unreachable /\ validOutcome(kind, answer)
  THEN [t EXCEPT !.policyDecision = answer, !.secondary = "valid",
                 !.outcome = answer, !.strategy = "policy",
                 !.decisionSource = "policy"]
  ELSE [t EXCEPT !.secondary = "error",
                 !.failureReasons = Append(@, "direct_inference_error")]

\* if (!backendDecision && cfg.inferenceUrl && observation)
attemptsSecondary(t) ==
  t.backendDecision = Null /\ inferenceUrl /\ t.observation # Null

phaseOf(plan) == IF plan.ns = "green" THEN "NS" ELSE "EW"
barrierOf(command) == IF command.state = "CLOSED" THEN "CLOSED" ELSE "OPEN"

\* The body of the tick's POST /control/decisions/log.
logPayload(kind, t) ==
  [agent |-> kind, location |-> t.item.location, decision |-> t.outcome,
   source |-> t.decisionSource, ts |-> now, failures |-> t.failureReasons]

\* Where a tick next waits once both routes are behind it: on the
\* controller unless it is the backend's mock, else as after the actuation.
pcAfterActuationAborting(t) ==
  IF t.backendDecision = Null /\ t.actuation # "failed" THEN "log" ELSE "done"

pcAfterActuation(t) == IF t.backendDecision = Null THEN "log" ELSE "done"

pcAfterRoutes(t) ==
  IF ~usesMockController THEN "actuate" ELSE pcAfterActuation(t)

\* A tick that remembers the outcomes of the inference routes only.
RunToPolicyOnly(kind, t, pc, routesDone) ==
  /\ tick' = [tick EXCEPT ![kind] =
       [t EXCEPT !.pc = pc,
                 !.posted = IF pc = "log" THEN logPayload(kind, t) ELSE @]]
  /\ lastPhase' = IF kind = "traffic" /\ routesDone
                     /\ t.decisionSource = "policy"
                  THEN phaseOf(t.outcome) ELSE lastPhase
  /\ lastBarrierState' = IF kind = "rail" /\ pc = "done"
                            /\ t.decisionSource = "policy"
                         THEN barrierOf(t.outcome) ELSE lastBarrierState

\* The tick of `kind` runs on from its locals `t` to its next await `pc`.
\* `routesDone`: it leaves the inference routes in this step.  The traffic
\* tick assigns lastPhase right after the routes; the rail tick assigns
\* lastBarrierState as its last statement.
RunTo(kind, t, pc, routesDone) ==
  /\ tick' = [tick EXCEPT ![kind] =
       [t EXCEPT !.pc = pc,
                 !.posted = IF pc = "log" THEN logPayload(kind, t) ELSE @]]
  /\ lastPhase' = IF kind = "traffic" /\ routesDone
                  THEN phaseOf(t.outcome) ELSE lastPhase
  /\ lastBarrierState' = IF kind = "rail" /\ pc = "done"
                         THEN barrierOf(t.outcome) ELSE lastBarrierState

\* A tick starts and calls GET /ingest/next?kind=<kind>.  The
\* handler dequeues; the tick returns at once if the call fails (`received`
\* is false) or if there is no item, else it builds the observation and the
\* fallback outcome and calls the primary route if the observation is
\* valid.
TickStart(kind, received) ==
  /\ tick[kind].pc \in {"idle", "done"}
  /\ nextItem(measurements, kind) # Null
  /\ measurements' = afterNext(measurements, kind)
  /\ delivered' = Append(delivered,
       [kind |-> kind, to |-> kind, item |-> nextItem(measurements, kind)])
  /\ IF received
     THEN LET t == startLocals(kind, nextItem(measurements, kind))
          IN  RunTo(kind, t,
                    IF t.observation # Null THEN "primary"
                    ELSE pcAfterRoutes(t),
                    t.observation = Null)
     ELSE /\ tick' = [tick EXCEPT ![kind] = IdleTick]
          /\ UNCHANGED <<lastPhase, lastBarrierState>>
  /\ UNCHANGED <<recent, latestByLocation, nextMid, ingested, dequeueCalls,
                 envVars, backendVars, cfgVars, controller, readVars>>

\* A tick that something other than the modelled loop starts.
TickDequeue(kind, received) ==
  /\ TickStart(kind, received)
  /\ UNCHANGED loopVars

\* The tick's request to the primary route reaches the backend
\* (requestBackendTrafficPlan, requestBackendRailPlan: source 'agent').
TickPrimaryArrives(kind) ==
  /\ tick[kind].pc = "primary"
  /\ PostInfer(kind, kind, tick[kind].item.location, "agent")

\* The backend's 200 answer reaches the tick.
TickPrimaryResponse(kind) ==
  /\ tick[kind].pc = "primary"
  /\ \E r \in responses :
       /\ r.rid = tick[kind].rid
       /\ r.status = 200
       /\ LET t == afterPrimaryResponse(kind, tick[kind],
                     [did |-> r.did, outcome |-> r.outcome])
          IN  RunTo(kind, t,
                    IF attemptsSecondary(t) THEN "secondary"
                    ELSE pcAfterRoutes(t),
                    ~attemptsSecondary(t))
  /\ UNCHANGED auxVars
  /\ UNCHANGED <<storeVars, envVars, backendVars, cfgVars, controller>>

\* The primary route's request throws: no connection, the 5 s timeout, or
\* an error status.  The backend goes on with a request it has received.
TickPrimaryError(kind) ==
  /\ tick[kind].pc = "primary"
  /\ LET t == afterPrimaryError(kind, tick[kind])
     IN  RunTo(kind, t,
               IF attemptsSecondary(t) THEN "secondary" ELSE pcAfterRoutes(t),
               ~attemptsSecondary(t))
  /\ UNCHANGED auxVars
  /\ UNCHANGED <<storeVars, envVars, backendVars, cfgVars, controller>>

\* The secondary route (the inference service, called directly) answers or
\* fails.
TickSecondary(kind, answer) ==
  /\ tick[kind].pc = "secondary"
  /\ answer \in OracleAnswers(kind)
  /\ LET t == afterSecondary(kind, tick[kind], answer)
     IN  RunTo(kind, t, pcAfterRoutes(t), TRUE)
  /\ UNCHANGED auxVars
  /\ UNCHANGED <<storeVars, envVars, backendVars, cfgVars, controller>>

\* The locals after the controller call: its failure is caught and logged.
afterActuation(t, ok) ==
  [t EXCEPT !.actuation = IF ok THEN "ok" ELSE "failed"]

\* setTrafficPlan / setBarrier returns or throws.
TickActuate(kind, ok) ==
  /\ tick[kind].pc = "actuate"
  /\ LET t == afterActuation(tick[kind], ok)
     IN  RunTo(kind, t, pcAfterActuation(t), FALSE)
  /\ controller' = IF ok THEN [controller EXCEPT ![kind] = tick[kind].outcome]
                   ELSE controller
  /\ UNCHANGED auxVars
  /\ UNCHANGED <<storeVars, envVars, backendVars, cfgVars>>

\* The tick's POST /control/decisions/log reaches the backend.
TickLogArrives(kind) ==
  /\ tick[kind].pc = "log"
  /\ PostLog(kind, kind, tick[kind].posted.location,
             tick[kind].posted.source, tick[kind].posted.decision,
             tick[kind].posted.ts, tick[kind].posted.failures)

\* The POST returns or throws (it is caught): the tick ends.
TickLogReturn(kind) ==
  /\ tick[kind].pc = "log"
  /\ RunTo(kind, tick[kind], "done", FALSE)
  /\ UNCHANGED auxVars
  /\ UNCHANGED <<storeVars, envVars, backendVars, cfgVars, controller>>
(***************************************************************************)
(* The agents' process (index.ts): loop() runs the traffic tick and the    *)
(* rail tick in batches and then the supervisor; setInterval starts it     *)
(* every INTERVAL_MS, whether the invocation before has returned or not.  *)
(***************************************************************************)
MAX_TRAFFIC_BATCH == 12
MAX_RAIL_BATCH == 4
batchLimit(kind) ==
  IF kind = "traffic" THEN MAX_TRAFFIC_BATCH ELSE MAX_RAIL_BATCH

\* The locals of loop(): where it is (pc), the for loop's counter, whether
\* a tick is awaited, the last result of each batch, and as history: the
\* items each batch dequeued, whether a tick reported an empty queue,
\* whether a tick threw, what tickSupervisor returned, and the number of
\* ticks that threw since the process started.
IdleLoop ==
  [pc |-> "idle", processed |-> 0, awaiting |-> FALSE,
   traffic |-> Null, rail |-> Null,
   dequeued |-> [k \in Kinds |-> 0], sawEmpty |-> [k \in Kinds |-> FALSE],
   threw |-> [k \in Kinds |-> FALSE], report |-> Null, throws |-> 0]

(***************************************************************************)
(* graphs/supervisorGraph.ts, tools/hederaLog.ts                           *)
(***************************************************************************)
\* A supervisor that knows the closed-barrier rule only.
anomaliesClosedOnly(traffic, rail) ==
  IF traffic # Null /\ rail # Null
     /\ rail.command.state = "CLOSED" /\ traffic.plan.ns = "green"
  THEN <<"Barrier closed while north-south lights are green.">> ELSE <<>>

\* A supervisor that reports the first anomaly it finds and stops.
anomaliesFirstOnly(traffic, rail) ==
  IF traffic # Null /\ rail # Null
     /\ rail.command.state = "CLOSED" /\ traffic.plan.ns = "green"
  THEN <<"Barrier closed while north-south lights are green.">>
  ELSE IF traffic # Null /\ rail # Null /\ rail.command.state = "OPEN"
          /\ traffic.plan.eo = "green" /\ traffic.plan.ns = "red"
  THEN <<"Barrier open while east-west traffic flows; verify interlocks.">>
  ELSE IF traffic # Null /\ traffic.source = "fallback"
  THEN <<"Traffic controller in fallback mode.">>
  ELSE IF rail # Null /\ rail.source = "fallback"
  THEN <<"Rail controller in fallback mode.">>
  ELSE <<>>

\* tickSupervisor's `anomalies`, in the order it pushes them.  A summary is
\* a tick's result (it has a plan or command, and a source) or undefined.
anomaliesOf(traffic, rail) ==
  (IF traffic # Null /\ rail # Null
   THEN (IF rail.command.state = "CLOSED" /\ traffic.plan.ns = "green"
         THEN <<"Barrier closed while north-south lights are green.">>
         ELSE <<>>)
        \o (IF rail.command.state = "OPEN" /\ traffic.plan.eo = "green"
               /\ traffic.plan.ns = "red"
            THEN <<"Barrier open while east-west traffic flows; verify interlocks.">>
            ELSE <<>>)
   ELSE <<>>)
  \o (IF traffic # Null /\ traffic.source = "fallback"
      THEN <<"Traffic controller in fallback mode.">> ELSE <<>>)
  \o (IF rail # Null /\ rail.source = "fallback"
      THEN <<"Rail controller in fallback mode.">> ELSE <<>>)

\* tickSupervisor's return value.
supervisorReport(traffic, rail) ==
  [ok |-> anomaliesOf(traffic, rail) = <<>>,
   anomalies |-> anomaliesOf(traffic, rail),
   traffic |-> traffic, rail |-> rail]

\* hedera_log_decision awaits the ledger: the topic id is well-formed and
\* the credentials are set.  Else it returns without I/O.
logsToLedger == hcsTopicId \notin {"", "invalid"} /\ agentCredentials

\* loop() calls tickSupervisor with the two summaries: it runs to its
\* return, or to the ledger call of hedera_log_decision.
SupervisorStart ==
  /\ loop.pc = "supervisor"
  /\ loop' = IF logsToLedger
             THEN [loop EXCEPT !.pc = "anchoring"]
             ELSE [loop EXCEPT !.pc = "idle",
                     !.report = supervisorReport(loop.traffic, loop.rail)]
  /\ UNCHANGED <<storeVars, envVars, backendVars, cfgVars, agentVars,
                 readVars, parked>>

\* The ledger call returns, or throws: loop() catches what tickSupervisor
\* throws and returns.
SupervisorLogged(ok) ==
  /\ loop.pc = "anchoring"
  /\ loop' = [loop EXCEPT !.pc = "idle",
                !.report = IF ok
                           THEN supervisorReport(loop.traffic, loop.rail)
                           ELSE [threw |-> TRUE]]
  /\ UNCHANGED <<storeVars, envVars, backendVars, cfgVars, agentVars,
                 readVars, parked>>

(***************************************************************************)
(* index.ts: loop() and its timer                                          *)
(***************************************************************************)
\* setInterval fires and loop() runs up to its first await, the first call
\* of tickTraffic.
LoopStart ==
  /\ loop.pc = "idle"
  /\ loop' = [IdleLoop EXCEPT !.pc = "traffic", !.throws = loop.throws]
  /\ UNCHANGED <<storeVars, envVars, backendVars, cfgVars, agentVars,
                 readVars, parked>>

\* What follows a batch: the rail batch, then the supervisor.
afterBatch(kind) == IF kind = "traffic" THEN "rail" ELSE "supervisor"

\* The tick answered {skipped: true}: `break`.
onSkipped(l, kind) ==
  [l EXCEPT !.sawEmpty[kind] = TRUE, !.pc = afterBatch(kind),
            !.processed = 0]

\* A for loop without its bound.
onResultUnbounded(l, kind, result) ==
  [l EXCEPT ![kind] = result, !.processed = @ + 1, !.awaiting = FALSE]

\* The tick returned a result: push it, processed += 1, and test the for
\* loop's condition.
onResult(l, kind, result) ==
  IF l.processed + 1 < batchLimit(kind)
  THEN [l EXCEPT ![kind] = result, !.processed = @ + 1, !.awaiting = FALSE]
  ELSE [l EXCEPT ![kind] = result, !.processed = 0, !.awaiting = FALSE,
                 !.pc = afterBatch(kind)]

\* A loop() without its try blocks: what a tick throws ends it for good.
onThrowFatal(l, kind) ==
  [l EXCEPT !.threw[kind] = TRUE, !.throws = @ + 1, !.pc = "crashed"]

\* The tick threw: the catch around the batch logs it and loop() goes on.
onThrow(l, kind) ==
  [l EXCEPT !.threw[kind] = TRUE, !.throws = @ + 1, !.pc = afterBatch(kind),
            !.processed = 0]

\* loop() calls the tick of `kind`, which calls GET /ingest/next.  The
\* backend is unreachable (the tick throws), or it answers: with no item
\* (the tick returns {skipped: true}), or with the item it dequeued, which
\* the tick receives or not (the answer is lost and the tick throws).
LoopCallTick(kind, reachable, received) ==
  /\ loop.pc = kind /\ ~loop.awaiting
  /\ UNCHANGED parked
  /\ (reachable /\ received) \/ loop.throws < MaxThrows
  /\ IF ~reachable
     THEN /\ loop' = onThrow(loop, kind)
          /\ UNCHANGED <<storeVars, envVars, backendVars, cfgVars, agentVars,
                         readVars>>
     ELSE IF nextItem(measurements, kind) = Null
     THEN /\ received
          /\ loop' = onSkipped(loop, kind)
          /\ UNCHANGED <<storeVars, envVars, backendVars, cfgVars, agentVars,
                         readVars>>
     ELSE /\ TickStart(kind, received)
          /\ loop' = IF received
                     THEN [loop EXCEPT !.awaiting = TRUE,
                                       !.dequeued[kind] = @ + 1]
                     ELSE [onThrow(loop, kind) EXCEPT !.dequeued[kind] = @ + 1]

\* What a tick returns to loop() and loop() hands to the supervisor.
summaryOf(kind, t) ==
  IF kind = "traffic"
  THEN [plan |-> t.outcome, source |-> t.decisionSource]
  ELSE [command |-> t.outcome, source |-> t.decisionSource]

\* The awaited tick has returned its result; its locals are gone.
LoopTickReturned(kind) ==
  /\ loop.pc = kind /\ loop.awaiting
  /\ tick[kind].pc = "done"
  /\ loop' = onResult(loop, kind, summaryOf(kind, tick[kind]))
  /\ tick' = [tick EXCEPT ![kind] = IdleTick]
  /\ UNCHANGED <<storeVars, envVars, backendVars, cfgVars, lastPhase,
                 lastBarrierState, controller, readVars, parked>>

\* setInterval fires while the invocation before awaits its tick or the
\* supervisor's ledger call: a new loop() starts with locals of its own, and
\* the earlier one keeps its locals until the event loop resumes it.  Both
\* share lastPhase, lastBarrierState and the backend.  Two invocations at
\* most are followed.
TimerOverlaps ==
  /\ parked = Null
  /\ loop.awaiting \/ loop.pc = "anchoring"
  /\ parked' = [loop |-> loop, tick |-> tick]
  /\ loop' = [IdleLoop EXCEPT !.pc = "traffic", !.throws = loop.throws]
  /\ tick' = [k \in Kinds |-> IdleTick]
  /\ UNCHANGED <<storeVars, envVars, backendVars, cfgVars, lastPhase,
                 lastBarrierState, controller, readVars>>

\* The event loop runs a continuation of the other invocation: the one
\* that ran awaits or has returned.
Resume ==
  /\ parked # Null
  /\ loop.awaiting \/ loop.pc \in {"anchoring", "idle"}
  /\ loop' = [parked.loop EXCEPT !.throws = loop.throws]
  /\ tick' = parked.tick
  /\ parked' = IF loop.pc = "idle" THEN Null
               ELSE [loop |-> loop, tick |-> tick]
  /\ UNCHANGED <<storeVars, envVars, backendVars, cfgVars, lastPhase,
                 lastBarrierState, controller, readVars>>
(***************************************************************************)
(* Specifications.                                                         *)
(***************************************************************************)
InitStore ==
  /\ measurements = <<>>
  /\ recent = [k \in Kinds |-> <<>>]
  /\ latestByLocation = [k \in Kinds |-> [l \in Locations |-> Null]]
  /\ nextMid = 1
  /\ ingested = [k \in Kinds |-> <<>>]
  /\ delivered = <<>>
  /\ dequeueCalls = 0

InitBackend ==
  /\ decisions = <<>>
  /\ topicCache = [k \in Kinds |-> 0]
  /\ now = 1
  /\ reqs = {}
  /\ subs = {}
  /\ ledger = <<>>
  /\ topicsCreated = 0
  /\ nextDid = 1
  /\ nextRid = 1
  /\ inserted = <<>>
  /\ responses = {}

\* The agents' process before its first loop(); no supervisor topic is
\* configured.
InitAgents ==
  /\ lastAnswer = Null
  /\ loop = IdleLoop
  /\ parked = Null
  /\ hcsTopicId = ""
  /\ agentCredentials = FALSE
  /\ lastPhase = "NS"
  /\ lastBarrierState = "OPEN"
  /\ tick = [k \in Kinds |-> IdleTick]
  /\ controller = [k \in Kinds |-> Null]

\* The process environment and the agents' configuration are fixed for a
\* run.
InitEnv ==
  /\ credentials \in BOOLEAN
  /\ envTopics \in BOOLEAN
  /\ consensusWaitMs \in {0, 1500}
  /\ inferenceUrl \in BOOLEAN
  /\ usesMockController \in BOOLEAN

Init == InitStore /\ InitBackend /\ InitAgents /\ InitEnv

\* The measurement store under its producers and any number of consumers.
InitStoreOnly ==
  /\ InitStore /\ InitBackend /\ InitAgents
  /\ credentials = FALSE /\ envTopics = FALSE /\ consensusWaitMs = 1500
  /\ inferenceUrl = TRUE /\ usesMockController = TRUE

NextStore ==
  \/ \E k \in Kinds, l \in Locations : Ingest(k, l, SampleValue(k))
  \/ \E k \in Kinds, c \in Consumers : DequeueNext(k, c)

SpecStore == InitStoreOnly /\ [][NextStore]_vars

\* The backend's decision routes under clients that call them directly.
InitRecord ==
  /\ InitStore /\ InitBackend /\ InitAgents
  /\ credentials \in BOOLEAN /\ envTopics = FALSE
  /\ consensusWaitMs \in {0, 1500}
  /\ inferenceUrl = TRUE /\ usesMockController = TRUE

NextRecord ==
  \/ \E a \in Kinds, ts \in {0, MaxTs} :
       PostLog(a, External, "A", "fallback", ExtOutcome(a), ts, <<>>)
  \/ \E a \in Kinds : PostInfer(a, External, "A", "client")
  \/ \E r \in 1..MaxRequests, a \in {ExtOutcome("traffic"),
                                      ExtOutcome("rail"), Unreachable} :
       OracleAnswer(r, a)
  \/ \E r \in 1..MaxRequests : TimerFire(r)
  \/ \E d \in 1..MaxRequests, ok \in BOOLEAN : TopicCreated(d, ok)
  \/ \E d \in 1..MaxRequests, ok \in BOOLEAN : MessageDone(d, ok)

SpecRecord == InitRecord /\ [][NextRecord]_vars

\* A DecisionLog that earlier requests have filled to one below its limit.
FilledLog ==
  [i \in 1..(DECISION_HISTORY_LIMIT - 1) |->
     newEntry(i, "traffic", "A", "fallback", ExtOutcome("traffic"), 1, <<>>)]

InitRetention ==
  /\ InitStore /\ InitAgents
  /\ decisions = FilledLog
  /\ inserted = FilledLog
  /\ nextDid = DECISION_HISTORY_LIMIT
  /\ topicCache = [k \in Kinds |-> 0]
  /\ now = 1
  /\ reqs = {}
  /\ subs = {}
  /\ ledger = <<>>
  /\ topicsCreated = 0
  /\ nextRid = 1
  /\ responses = {}
  /\ credentials = FALSE /\ envTopics = FALSE
  /\ consensusWaitMs \in {0, 1500}
  /\ inferenceUrl = TRUE /\ usesMockController = TRUE

NextRetention ==
  \/ \E a \in Kinds, l \in Locations, ts \in {0, MaxTs} :
       PostLog(a, External, l, "fallback", ExtOutcome(a), ts, <<>>)
  \/ \E a \in Kinds, l \in Locations : PostInfer(a, External, l, "client")
  \/ \E r \in 1..MaxRequests, a \in {ExtOutcome("traffic"),
                                      ExtOutcome("rail"), Unreachable} :
       OracleAnswer(r, a)

SpecRetention == InitRetention /\ [][NextRetention]_vars


\* The agents' ticks against the backend, anchoring disabled: sensors
\* ingest, the ticks dequeue, ask the routes, actuate and log.
InitPipeline ==
  /\ InitStore /\ InitBackend /\ InitAgents
  /\ credentials = FALSE /\ envTopics = FALSE /\ consensusWaitMs = 1500
  /\ inferenceUrl \in BOOLEAN
  /\ usesMockController \in BOOLEAN

\* A reading whose fallback outcome is not the default one, and a faulty
\* one.
PipelineValues(kind) ==
  IF kind = "traffic"
  THEN {[queue_ns |-> 10, queue_ew |-> 25], [queue_ns |-> -1, queue_ew |-> 10]}
  ELSE {[eta_ms |-> 18000], [eta_ms |-> -1]}

PipelineAnswers(kind) == {ExtOutcome(kind), InvalidOutcome(kind), Unreachable}

NextPipeline ==
  \/ \E k \in Kinds : \E v \in PipelineValues(k) :
       nextMid <= MaxTickItems /\ Ingest(k, "A", v)
  \/ \E k \in Kinds, received \in BOOLEAN : TickDequeue(k, received)
  \/ \E k \in Kinds : TickPrimaryArrives(k)
  \/ \E r \in 1..MaxRequests, k \in Kinds :
       \E a \in PipelineAnswers(k) : OracleAnswer(r, a)
  \/ \E k \in Kinds : TickPrimaryResponse(k)
  \/ \E k \in Kinds : TickPrimaryError(k)
  \/ \E k \in Kinds : \E a \in PipelineAnswers(k) : TickSecondary(k, a)
  \/ \E k \in Kinds, ok \in BOOLEAN : TickActuate(k, ok)
  \/ \E k \in Kinds : TickLogArrives(k)
  \/ \E k \in Kinds : TickLogReturn(k)

SpecPipeline == InitPipeline /\ [][NextPipeline]_vars

\* The DecisionLog under clients that post decisions for locations spelt in
\* different cases, or for none, and read the latest ones.
LogLocations == {"A", "a", "B", ""}

InitLatest ==
  /\ InitStore /\ InitBackend /\ InitAgents
  /\ credentials = FALSE /\ envTopics = FALSE /\ consensusWaitMs = 1500
  /\ inferenceUrl = TRUE /\ usesMockController = TRUE

NextLatest ==
  \/ \E a \in Kinds, l \in LogLocations, ts \in {1, MaxTs} :
       PostLog(a, External, l, "fallback", ExtOutcome(a), ts, <<>>)
  \/ \E f \in {"", "traffic"}, lim \in {0, 1} : GetLatest(f, lim)

SpecLatest == InitLatest /\ [][NextLatest]_vars

\* tickSupervisor on every pair of summaries the ticks can hand to it, under
\* every configuration of its topic.
TrafficSummaries ==
  {Null} \cup
  {[plan |-> [ns |-> n, eo |-> e, durationSec |-> d0], source |-> s] :
     n \in {"green", "amber", "red"}, e \in {"green", "amber", "red"},
     s \in {"policy", "fallback"}}
RailSummaries ==
  {Null} \cup
  {[command |-> [state |-> b], source |-> s] :
     b \in {"OPEN", "CLOSED", "CLOSING", "OPENING"},
     s \in {"policy", "fallback"}}

InitSupervisor ==
  /\ InitStore /\ InitBackend
  /\ credentials = FALSE /\ envTopics = FALSE /\ consensusWaitMs = 1500
  /\ inferenceUrl = TRUE /\ usesMockController = TRUE
  /\ lastPhase = "NS"
  /\ lastBarrierState = "OPEN"
  /\ tick = [k \in Kinds |-> IdleTick]
  /\ controller = [k \in Kinds |-> Null]
  /\ lastAnswer = Null
  /\ hcsTopicId \in {"", "invalid", "0.0.5"}
  /\ agentCredentials \in BOOLEAN
  /\ \E t \in TrafficSummaries, r \in RailSummaries :
       loop = [IdleLoop EXCEPT !.pc = "supervisor", !.traffic = t,
                               !.rail = r]
  /\ parked = Null

NextSupervisor ==
  \/ SupervisorStart
  \/ \E ok \in BOOLEAN : SupervisorLogged(ok)

SpecSupervisor == InitSupervisor /\ [][NextSupervisor]_vars

\* The agents' loop over a backlog the sensors have posted before it runs:
\* nothing, less than a batch, or more than a batch of each kind.  No
\* inference service answers, the controller is the backend's mock and no
\* supervisor topic is set, so a tick has one way through.
backlogItem(i, nTraffic) ==
  LET kind == IF i <= nTraffic THEN "traffic" ELSE "rail"
  IN  [id |-> i, kind |-> kind, location |-> "A",
       value |-> SampleValue(kind),
       metric |-> metricOf(kind, SampleValue(kind))]

InitBacklog(nTraffic, nRail) ==
  LET all == [i \in 1..(nTraffic + nRail) |-> backlogItem(i, nTraffic)]
  IN  /\ measurements = all
      /\ recent = [k \in Kinds |-> SelectKind(all, k)]
      /\ latestByLocation =
           [k \in Kinds |->
              [l \in Locations |->
                 IF l = "A" /\ SelectKind(all, k) # <<>>
                 THEN SelectKind(all, k)[Len(SelectKind(all, k))]
                 ELSE Null]]
      /\ nextMid = nTraffic + nRail + 1
      /\ ingested = [k \in Kinds |->
                       [i \in 1..Len(SelectKind(all, k)) |->
                          SelectKind(all, k)[i].id]]
      /\ delivered = <<>>
      /\ dequeueCalls = 0

InitLoop ==
  /\ \E nTraffic \in {0, 2, MAX_TRAFFIC_BATCH + 1},
        nRail \in {0, 2, MAX_RAIL_BATCH + 1} : InitBacklog(nTraffic, nRail)
  /\ InitBackend
  /\ credentials = FALSE /\ envTopics = FALSE /\ consensusWaitMs = 1500
  /\ inferenceUrl = FALSE /\ usesMockController = TRUE
  /\ lastPhase = "NS"
  /\ lastBarrierState = "OPEN"
  /\ tick = [k \in Kinds |-> IdleTick]
  /\ controller = [k \in Kinds |-> Null]
  /\ lastAnswer = Null
  /\ hcsTopicId = ""
  /\ agentCredentials = FALSE
  /\ loop = IdleLoop
  /\ parked = Null

NextLoop ==
  \/ LoopStart
  \/ \E k \in Kinds, reachable \in BOOLEAN, received \in BOOLEAN :
       LoopCallTick(k, reachable, received)
  \/ \E k \in Kinds : TickPrimaryError(k)
  \/ \E k \in Kinds : TickLogReturn(k)
  \/ \E k \in Kinds : LoopTickReturned(k)
  \/ SupervisorStart

SpecLoop == InitLoop /\ [][NextLoop]_vars

\* One tick on one measurement of any reading, the inference routes down:
\* the FallbackPolicy decides.
QueueSamples == {-1, 0, 10, 19, 20, 21, 25}
EtaSamples == {-1, 0, 18000, 19999, 20000, 20001, 25000}
ReadingsOf(kind) ==
  IF kind = "traffic"
  THEN {[queue_ns |-> n, queue_ew |-> e] : n \in QueueSamples,
                                          e \in QueueSamples}
  ELSE {[eta_ms |-> t] : t \in EtaSamples}

InitFallback ==
  /\ \E k \in Kinds : \E v \in ReadingsOf(k) :
       LET item == [id |-> 1, kind |-> k, location |-> "A", value |-> v,
                    metric |-> metricOf(k, v)]
       IN  /\ measurements = <<item>>
           /\ recent = [j \in Kinds |-> IF j = k THEN <<item>> ELSE <<>>]
           /\ latestByLocation =
                [j \in Kinds |->
                   [l \in Locations |->
                      IF j = k /\ l = "A" THEN item ELSE Null]]
           /\ ingested = [j \in Kinds |-> IF j = k THEN <<1>> ELSE <<>>]
  /\ nextMid = 2
  /\ delivered = <<>>
  /\ dequeueCalls = 0
  /\ InitBackend /\ InitAgents
  /\ credentials = FALSE /\ envTopics = FALSE /\ consensusWaitMs = 1500
  /\ inferenceUrl = FALSE /\ usesMockController = FALSE

NextFallback ==
  \/ \E k \in Kinds : TickDequeue(k, TRUE)
  \/ \E k \in Kinds : TickPrimaryError(k)
  \/ \E k \in Kinds, ok \in BOOLEAN : TickActuate(k, ok)
  \/ \E k \in Kinds : TickLogReturn(k)

SpecFallback == InitFallback /\ [][NextFallback]_vars

\* The measurement store under sensors that post complete bodies and
\* bodies that lack a field or all of them, a consumer that dequeues what
\* is pending and dashboards that read snapshots.
InitSnapshot ==
  /\ InitStore /\ InitBackend /\ InitAgents
  /\ credentials = FALSE /\ envTopics = FALSE /\ consensusWaitMs = 1500
  /\ inferenceUrl = TRUE /\ usesMockController = TRUE

IngestBodies ==
  {<<k, l, SampleValue(k)>> : k \in Kinds, l \in Locations}
  \cup {<<"", "A", SampleValue("traffic")>>,
         <<"traffic", "", SampleValue("traffic")>>,
         <<"traffic", "A", Null>>,
         <<"", "", Null>>}

NextSnapshot ==
  \/ \E b \in IngestBodies : PostIngest(b[1], b[2], b[3])
  \/ \E k \in Kinds : nextItem(measurements, k) # Null /\ DequeueNext(k, "c1")
  \/ \E k \in Kinds, given \in BOOLEAN, limitRaw \in {0, 2} :
       GetSnapshot(k, given, limitRaw)

SpecSnapshot == InitSnapshot /\ [][NextSnapshot]_vars

\* The agents' process with every dependency able to fail: the backend at
\* the dequeue, both inference routes, the controller, the decision log and
\* the supervisor's ledger.  What the process waits for comes to an end:
\* the timer fires, an HTTP call returns or fails within its timeout, the
\* ledger call returns or throws; a continuation that can run is run.
InitProcess ==
  /\ \E nTraffic \in {0, 1}, nRail \in {0, 1} : InitBacklog(nTraffic, nRail)
  /\ InitBackend
  /\ credentials = FALSE /\ envTopics = FALSE /\ consensusWaitMs = 1500
  /\ inferenceUrl = TRUE /\ usesMockController = FALSE
  /\ lastPhase = "NS"
  /\ lastBarrierState = "OPEN"
  /\ tick = [k \in Kinds |-> IdleTick]
  /\ controller = [k \in Kinds |-> Null]
  /\ lastAnswer = Null
  /\ hcsTopicId = "0.0.5"
  /\ agentCredentials = TRUE
  /\ loop = IdleLoop
  /\ parked = Null

NextProcess ==
  \/ LoopStart
  \/ \E k \in Kinds, reachable \in BOOLEAN, received \in BOOLEAN :
       LoopCallTick(k, reachable, received)
  \/ \E k \in Kinds : TickPrimaryError(k)
  \/ \E k \in Kinds : \E a \in {ExtOutcome(k), Unreachable} :
       TickSecondary(k, a)
  \/ \E k \in Kinds, ok \in BOOLEAN : TickActuate(k, ok)
  \/ \E k \in Kinds : TickLogArrives(k)
  \/ \E k \in Kinds : TickLogReturn(k)
  \/ \E k \in Kinds : LoopTickReturned(k)
  \/ SupervisorStart
  \/ \E ok \in BOOLEAN : SupervisorLogged(ok)

SpecProcessFair ==
  /\ InitProcess /\ [][NextProcess]_vars
  /\ WF_vars(LoopStart)
  /\ WF_vars(\E k \in Kinds, reachable \in BOOLEAN, received \in BOOLEAN :
               LoopCallTick(k, reachable, received))
  /\ WF_vars(\E k \in Kinds : TickPrimaryError(k))
  /\ WF_vars(\E k \in Kinds : \E a \in {ExtOutcome(k), Unreachable} :
               TickSecondary(k, a))
  /\ WF_vars(\E k \in Kinds, ok \in BOOLEAN : TickActuate(k, ok))
  /\ WF_vars(\E k \in Kinds : TickLogReturn(k))
  /\ WF_vars(\E k \in Kinds : LoopTickReturned(k))
  /\ WF_vars(SupervisorStart)
  /\ WF_vars(\E ok \in BOOLEAN : SupervisorLogged(ok))

\* The agents' loop when its timer fires while an invocation still awaits:
\* a backlog, the primary route unreachable, the secondary route answering
\* with an outcome that is not the fallback's, or failing.
InitOverlap ==
  /\ \E nTraffic \in {1, 2}, nRail \in {0, 2} : InitBacklog(nTraffic, nRail)
  /\ InitBackend
  /\ credentials = FALSE /\ envTopics = FALSE /\ consensusWaitMs = 1500
  /\ inferenceUrl = TRUE /\ usesMockController = TRUE
  /\ lastPhase = "NS"
  /\ lastBarrierState = "OPEN"
  /\ tick = [k \in Kinds |-> IdleTick]
  /\ controller = [k \in Kinds |-> Null]
  /\ lastAnswer = Null
  /\ hcsTopicId = ""
  /\ agentCredentials = FALSE
  /\ loop = IdleLoop
  /\ parked = Null

NextOverlap ==
  \/ LoopStart
  \/ TimerOverlaps
  \/ Resume
  \/ \E k \in Kinds, reachable \in BOOLEAN, received \in BOOLEAN :
       LoopCallTick(k, reachable, received)
  \/ \E k \in Kinds : TickPrimaryError(k)
  \/ \E k \in Kinds :
       \E a \in {[ns |-> "red", eo |-> "green", durationSec |-> 20],
                 [state |-> "OPENING"], Unreachable} : TickSecondary(k, a)
  \/ \E k \in Kinds : TickLogReturn(k)
  \/ \E k \in Kinds : LoopTickReturned(k)
  \/ SupervisorStart

SpecOverlap == InitOverlap /\ [][NextOverlap]_vars

\* The measurement store after `n` traffic measurements were posted for
\* location A, none of them dequeued or all of them: the ids of those
\* measurements are n - 1 below zero up to zero, the run's own start at 1.
InitFilledStore ==
  /\ \E n \in {RECENT_KEEP - 2, RECENT_KEEP}, dequeued \in BOOLEAN :
       LET all == [i \in 1..n |->
                     [id |-> i - n, kind |-> "traffic", location |-> "A",
                      value |-> SampleValue("traffic"),
                      metric |-> metricOf("traffic",
                                          SampleValue("traffic"))]]
       IN  /\ measurements = IF dequeued THEN <<>> ELSE all
           /\ recent = [k \in Kinds |-> IF k = "traffic" THEN all ELSE <<>>]
           /\ latestByLocation =
                [k \in Kinds |->
                   [l \in Locations |->
                      IF k = "traffic" /\ l = "A" THEN all[n] ELSE Null]]
           /\ ingested = [k \in Kinds |->
                            IF k = "traffic" THEN Ids(all) ELSE <<>>]
           /\ delivered = <<>>
  /\ nextMid = 1
  /\ dequeueCalls = 0
  /\ InitBackend /\ InitAgents
  /\ credentials = FALSE /\ envTopics = FALSE /\ consensusWaitMs = 1500
  /\ inferenceUrl = TRUE /\ usesMockController = TRUE

NextFilledStore ==
  \/ \E k \in Kinds : Ingest(k, "A", SampleValue(k))
  \/ \E k \in Kinds : nextItem(measurements, k) # Null /\ DequeueNext(k, "c1")

SpecFilledStore == InitFilledStore /\ [][NextFilledStore]_vars

\* The DecisionLog with anchoring enabled, under clients that record
\* decisions and read the latest ones while submissions complete.
InitRecordRead ==
  /\ InitStore /\ InitBackend /\ InitAgents
  /\ credentials = TRUE /\ envTopics = FALSE
  /\ consensusWaitMs = 1500
  /\ inferenceUrl = TRUE /\ usesMockController = TRUE

NextRecordRead ==
  \/ PostLog("traffic", External, "A", "fallback", ExtOutcome("traffic"), 0,
             <<>>)
  \/ PostInfer("traffic", External, "A", "client")
  \/ \E r \in 1..MaxRequests : OracleAnswer(r, ExtOutcome("traffic"))
  \/ \E r \in 1..MaxRequests : TimerFire(r)
  \/ \E d \in 1..MaxRequests, ok \in BOOLEAN : TopicCreated(d, ok)
  \/ \E d \in 1..MaxRequests, ok \in BOOLEAN : MessageDone(d, ok)
  \/ GetLatest("", 0)

SpecRecordRead == InitRecordRead /\ [][NextRecordRead]_vars

\* deriveMetric on payloads that have any of a congestion, two queue, a
\* progress, a wait and an ETA field.
MetricPayloads ==
  LET values == [congestion |-> {30}, queue_ns |-> {5}, queue_ew |-> {7},
                 progress |-> {1, 60}, wait_ns |-> {50},
                 eta_ms |-> {18000}]
  IN  UNION {{data \in [fields -> {1, 5, 7, 30, 50, 60, 18000}] :
                \A f \in fields : data[f] \in values[f]} :
             fields \in SUBSET DOMAIN values}

InitMetric ==
  /\ InitStore /\ InitBackend /\ InitAgents
  /\ credentials = FALSE /\ envTopics = FALSE /\ consensusWaitMs = 1500
  /\ inferenceUrl = TRUE /\ usesMockController = TRUE

NextMetric ==
  \E k \in Kinds, data \in MetricPayloads : MetricDerived(k, data)

SpecMetric == InitMetric /\ [][NextMetric]_vars

\* The periodic loop drains a backlog while POST /ingest goes on for a
\* while.  The queue starts with a measurement of a kind no agent asks for
\* (POST /ingest takes any kind; it has no metric), then nRail rail and
\* nTraffic traffic measurements.  The backend answers every request of
\* GET /ingest/next; the timer keeps firing and the event loop runs every
\* continuation that is ready (weak fairness).  Nothing is assumed about
\* POST /ingest, which stops after MaxIngest requests.
drainItem(i, nRail, n) ==
  IF i = 1
  THEN [id |-> 1 - n, kind |-> "weather", location |-> "A",
        value |-> [reading |-> 1]]
  ELSE LET kind == IF i <= nRail + 1 THEN "rail" ELSE "traffic"
       IN  [id |-> i - n, kind |-> kind, location |-> "A",
            value |-> SampleValue(kind),
            metric |-> metricOf(kind, SampleValue(kind))]

InitDrain ==
  /\ \E nRail \in {1, MAX_RAIL_BATCH + 1}, nTraffic \in {0, 1} :
       LET n == 1 + nRail + nTraffic
           all == [i \in 1..n |-> drainItem(i, nRail, n)]
       IN  /\ measurements = all
           /\ recent = [k \in Kinds |-> SelectKind(all, k)]
           /\ latestByLocation =
                [k \in Kinds |->
                   [l \in Locations |->
                      IF l = "A" /\ SelectKind(all, k) # <<>>
                      THEN SelectKind(all, k)[Len(SelectKind(all, k))]
                      ELSE Null]]
           /\ ingested = [k \in Kinds |-> Ids(SelectKind(all, k))]
  /\ nextMid = 1
  /\ delivered = <<>>
  /\ dequeueCalls = 0
  /\ InitBackend
  /\ credentials = FALSE /\ envTopics = FALSE /\ consensusWaitMs = 1500
  /\ inferenceUrl = FALSE /\ usesMockController = TRUE
  /\ lastPhase = "NS"
  /\ lastBarrierState = "OPEN"
  /\ tick = [k \in Kinds |-> IdleTick]
  /\ controller = [k \in Kinds |-> Null]
  /\ lastAnswer = Null
  /\ hcsTopicId = ""
  /\ agentCredentials = FALSE
  /\ loop = IdleLoop
  /\ parked = Null

DrainIngest == \E k \in Kinds : Ingest(k, "A", SampleValue(k))
DrainCallTick == \E k \in Kinds : LoopCallTick(k, TRUE, TRUE)
DrainPrimaryError == \E k \in Kinds : TickPrimaryError(k)
DrainLogReturn == \E k \in Kinds : TickLogReturn(k)
DrainTickReturned == \E k \in Kinds : LoopTickReturned(k)

NextDrain ==
  \/ DrainIngest
  \/ LoopStart
  \/ DrainCallTick
  \/ DrainPrimaryError
  \/ DrainLogReturn
  \/ DrainTickReturned
  \/ SupervisorStart

SpecDrain ==
  /\ InitDrain /\ [][NextDrain]_vars
  /\ WF_vars(LoopStart)
  /\ WF_vars(DrainCallTick)
  /\ WF_vars(DrainPrimaryError)
  /\ WF_vars(DrainLogReturn)
  /\ WF_vars(DrainTickReturned)
  /\ WF_vars(SupervisorStart)
(***************************************************************************)
(* C1: successive dequeueNext(k) calls return the measurements of kind k   *)
(* in exactly the order they were ingested, and no measurement is returned *)
(* by more than one call, whoever the consumers are: for each kind, the    *)
(* items returned so far followed by the items still pending are the       *)
(* ingested items, in ingestion order.                                     *)
(***************************************************************************)
DeliveredIds(kind) ==
  LET ds == SelectKind(delivered, kind) IN [i \in 1..Len(ds) |-> ds[i].item.id]

C1_FifoAtMostOnce ==
  \A k \in Kinds :
    /\ DeliveredIds(k) \o Ids(SelectKind(measurements, k)) = ingested[k]
    /\ \A i, j \in 1..Len(delivered) :
         delivered[i].item.id = delivered[j].item.id => i = j
    /\ \A i \in 1..Len(delivered) : delivered[i].item.kind = delivered[i].kind

\* Two consumers have each been handed a traffic measurement while a rail
\* measurement ingested between them is still pending.
C1_Witness ==
  /\ Len(delivered) >= 2
  /\ delivered[1].kind = "traffic" /\ delivered[2].kind = "traffic"
  /\ delivered[1].to # delivered[2].to
  /\ delivered[1].item.id + 1 < delivered[2].item.id
  /\ \E i \in 1..Len(measurements) : measurements[i].kind = "rail"

(***************************************************************************)
(* The decisions recorded so far; the ticks that have left the inference   *)
(* routes behind them.                                                     *)
(***************************************************************************)
\* The decisions recordDecision has pushed so far.
Recorded(did) == \E i \in 1..Len(inserted) : inserted[i].id = did
RecordedAs(did) == inserted[CHOOSE i \in 1..Len(inserted) : inserted[i].id = did]

PastRoutes(kind) == tick[kind].pc \in {"actuate", "log", "done"}

(***************************************************************************)
(* C2: in a tick, whenever the primary inference route failed (it was      *)
(* unreachable or its answer was structurally invalid) and a secondary     *)
(* route is configured, the secondary route has been attempted before the  *)
(* fallback outcome is used; the fallback outcome is used only if both     *)
(* routes failed or no secondary route is configured.                      *)
(***************************************************************************)
C2_SecondaryAttemptedBeforeFallback ==
  \A k \in Kinds :
    PastRoutes(k) =>
      /\ (tick[k].primary \in {"error", "invalid"} /\ inferenceUrl) =>
           tick[k].secondary # "none"
      /\ (tick[k].decisionSource = "fallback" /\ tick[k].primary # "none") =>
           \/ ~inferenceUrl
           \/ tick[k].secondary = "error"

(***************************************************************************)
(* C3: for every measurement a tick processes, the source of the decision  *)
(* it produces is 'policy' if and only if the primary or the secondary     *)
(* route returned a valid response for that measurement, and 'fallback'    *)
(* otherwise; the outcome is then that response's, and the decision the    *)
(* tick posts to the log carries the same source.                          *)
(***************************************************************************)
PrimaryReturnedValid(kind) ==
  /\ tick[kind].backendDecision # Null
  /\ validOutcome(kind, tick[kind].backendDecision.outcome)
  /\ \E r \in responses :
       /\ r.status = 200 /\ r.did = tick[kind].backendDecision.did
       /\ r.outcome = tick[kind].backendDecision.outcome

SecondaryReturnedValid(kind) ==
  /\ tick[kind].policyDecision # Null
  /\ validOutcome(kind, tick[kind].policyDecision)

C3_SourcePolicyIffRouteValid ==
  \A k \in Kinds :
    PastRoutes(k) =>
      /\ tick[k].decisionSource \in {"policy", "fallback"}
      /\ tick[k].decisionSource = "policy" <=>
           (PrimaryReturnedValid(k) \/ SecondaryReturnedValid(k))
      /\ PrimaryReturnedValid(k) <=> tick[k].primary = "valid"
      /\ SecondaryReturnedValid(k) <=> tick[k].secondary = "valid"
      /\ PrimaryReturnedValid(k) =>
           tick[k].outcome = tick[k].backendDecision.outcome
      /\ SecondaryReturnedValid(k) => tick[k].outcome = tick[k].policyDecision
      /\ tick[k].posted # Null =>
           tick[k].posted.source = tick[k].decisionSource

\* A tick whose primary route failed and whose secondary route answered
\* with a valid outcome ended; it posted the decision with source 'policy'
\* and the backend recorded it so.
C3_Witness ==
  \E k \in Kinds :
    /\ tick[k].pc = "done"
    /\ tick[k].primary = "error" /\ tick[k].secondary = "valid"
    /\ tick[k].decisionSource = "policy"
    /\ tick[k].posted # Null /\ tick[k].posted.source = "policy"
    /\ \E r \in responses :
         /\ r.rid = tick[k].rid /\ r.route = "log" /\ Recorded(r.did)
         /\ RecordedAs(r.did).source = "policy"

(***************************************************************************)
(* C4: when the inference oracle is unreachable and no secondary route is  *)
(* configured, a tick that dequeued a measurement emits a Decision whose   *)
(* source is 'fallback' and whose outcome is exactly what fallbackPlan     *)
(* (traffic) or fallbackCommand (rail) computes from that measurement:     *)
(* the tick carries that outcome from its start to its end, posts it to    *)
(* the decision log, and the entry the backend records for the post is     *)
(* that decision.                                                          *)
(***************************************************************************)
OracleUnreachable(kind) ==
  /\ tick[kind].item # Null
  /\ ~inferenceUrl
  /\ tick[kind].primary \in {"none", "error"}

C4_FallbackDecisionEmitted ==
  \A k \in Kinds :
    OracleUnreachable(k) =>
      /\ tick[k].outcome = fallbackOutcome(k, tick[k].item.value)
      /\ tick[k].decisionSource = "fallback"
      /\ tick[k].secondary = "none"
      /\ tick[k].pc \in {"log", "done"} =>
           /\ tick[k].posted # Null
           /\ tick[k].posted.agent = k
           /\ tick[k].posted.source = "fallback"
           /\ tick[k].posted.decision = fallbackOutcome(k, tick[k].item.value)
           /\ \A r \in responses :
                (r.rid = tick[k].rid /\ r.route = "log") =>
                  /\ Recorded(r.did)
                  /\ RecordedAs(r.did).source = "fallback"
                  /\ RecordedAs(r.did).agent = k
                  /\ RecordedAs(r.did).decision =
                       fallbackOutcome(k, tick[k].item.value)

\* The oracle did not answer the backend, which replied 502 to the traffic
\* tick; the tick posted the fallback plan for an east-west queue and the
\* backend recorded it.
C4_Witness ==
  /\ ~inferenceUrl
  /\ tick["traffic"].pc = "done" /\ tick["traffic"].primary = "error"
  /\ tick["traffic"].posted # Null
  /\ tick["traffic"].posted.decision =
       [ns |-> "red", eo |-> "green", durationSec |-> d1]
  /\ \E r \in responses : r.route = "infer" /\ r.status = 502
  /\ \E r \in responses :
       /\ r.rid = tick["traffic"].rid /\ r.route = "log" /\ Recorded(r.did)
(***************************************************************************)
(* C5: on every route that anchors a decision, a consensus submission      *)
(* that fails only leaves the decision without a ConsensusRef: whenever    *)
(* the backend answers a request whose submission threw, the request's     *)
(* decision has been recorded in the DecisionLog, with empty consensus     *)
(* fields.                                                                 *)
(***************************************************************************)
C5_FailedSubmissionStillRecorded ==
  \A r \in responses :
    r.first = "failure" =>
      /\ Recorded(r.did)
      /\ RecordedAs(r.did).topicId = 0

(***************************************************************************)
(* C6: a failing actuation (the controller call throws or times out) never *)
(* aborts the tick and never suppresses the Decision record: the tick goes *)
(* on exactly as after a successful actuation.  It posts the decision to   *)
(* the log unless the backend recorded it when it answered the primary     *)
(* route, and it ends with the remembered state (lastPhase,                *)
(* lastBarrierState) set from the outcome.                                 *)
(***************************************************************************)
C6_ActuationFailureDoesNotAbort ==
  \A k \in Kinds :
    tick[k].actuation = "failed" =>
      /\ tick[k].pc \in {"log", "done"}
      /\ tick[k].backendDecision = Null =>
           /\ tick[k].posted # Null
           /\ tick[k].posted.decision = tick[k].outcome
           /\ tick[k].posted.source = tick[k].decisionSource
      /\ tick[k].backendDecision # Null =>
           /\ tick[k].posted = Null
           /\ Recorded(tick[k].backendDecision.did)
      /\ (k = "traffic") => lastPhase = phaseOf(tick[k].outcome)
      /\ (k = "rail" /\ tick[k].pc = "done") =>
           lastBarrierState = barrierOf(tick[k].outcome)

\* The traffic controller failed; the tick, which fell back after the
\* primary route failed, posted its decision, the backend recorded it, and
\* the tick ended remembering the east-west phase that no controller
\* applied.
C6_Witness ==
  /\ tick["traffic"].pc = "done" /\ tick["traffic"].actuation = "failed"
  /\ tick["traffic"].backendDecision = Null
  /\ tick["traffic"].primary = "error"
  /\ lastPhase = "EW"
  /\ \E r \in responses :
       /\ r.rid = tick["traffic"].rid /\ r.route = "log" /\ Recorded(r.did)
  /\ controller = [k \in Kinds |-> Null]

(***************************************************************************)
(* C7: POST /decisions/log with anchoring enabled and a positive wait      *)
(* budget answers by whichever of the submission and the timer finishes    *)
(* first: the ConsensusRef and pending=false when the submission confirmed *)
(* first; pending=true, no ConsensusRef and a decision recorded with empty *)
(* consensus fields when the timer fired first.                            *)
(***************************************************************************)
C7_RaceDecidesAnswer ==
  \A r \in responses :
    (r.route = "log" /\ r.anchoring /\ r.waitMs > 0) =>
      /\ r.first \in {"submission", "timer", "failure"}
      /\ Recorded(r.did)
      /\ r.first = "submission" =>
           /\ r.consensus # Null
           /\ r.consensus.topicId # 0
           /\ r.consensus.topicId = RecordedAs(r.did).topicId
           /\ ~r.pending
      /\ r.first = "timer" =>
           /\ r.pending
           /\ r.consensus = Null
           /\ RecordedAs(r.did).topicId = 0
           /\ RecordedAs(r.did).sequenceNumber = 0
           /\ RecordedAs(r.did).consensusTimestamp = 0

\* One request was answered by the submission, another by the timer.
C7_Witness ==
  \E r1, r2 \in responses :
    /\ r1.route = "log" /\ r1.first = "submission" /\ r1.waitMs > 0
    /\ r2.route = "log" /\ r2.first = "timer" /\ r2.waitMs > 0

(***************************************************************************)
(* C8: a submission that lost the race (the answer said pending) is not    *)
(* cancelled: once the ledger has accepted its message, the Decision       *)
(* stored in the DecisionLog carries the topicId, sequenceNumber and       *)
(* consensusTimestamp, and every GET /decisions/latest that returns that   *)
(* Decision shows the populated ConsensusRef.                              *)
(***************************************************************************)
Anchored(did) == \E i \in 1..Len(ledger) : ledger[i].did = did
AgentFilters == {""} \cup Kinds
ReadLimits == 0..2

C8_LateCompletionFillsStoredDecision ==
  \A r \in responses :
    (r.route = "log" /\ r.pending /\ Anchored(r.did)) =>
      LET m == ledger[CHOOSE i \in 1..Len(ledger) : ledger[i].did = r.did]
      IN  /\ \A i \in 1..Len(decisions) :
                decisions[i].id = r.did =>
                  /\ decisions[i].topicId = m.topicId
                  /\ decisions[i].sequenceNumber # 0
                  /\ decisions[i].consensusTimestamp # 0
          /\ \A f \in AgentFilters, lim \in ReadLimits :
                LET items == latestDecisions(decisions, f, lim)
                IN  \A i \in 1..Len(items) :
                      items[i].id = r.did =>
                        /\ items[i].consensus # Null
                        /\ items[i].consensus.topicId = m.topicId
                        /\ items[i].consensus.sequenceNumber # 0

\* The timer won, the submission completed later, and a read that also
\* passes over an older decision of the same agent and location returns the
\* decision.
C8_Witness ==
  \E r \in responses :
    /\ r.route = "log" /\ r.first = "timer" /\ Anchored(r.did)
    /\ Len(decisions) = 2
    /\ keyOf(decisions[1]) = keyOf(decisions[2])
    /\ LET items == latestDecisions(decisions, "", 0)
       IN  Len(items) = 1 /\ items[1].id = r.did

(***************************************************************************)
(* C9: with a wait budget of 0, POST /decisions/log never waits for the    *)
(* submission: its answer has pending=true and no ConsensusRef, whatever   *)
(* the ledger does.                                                        *)
(***************************************************************************)
C9_ZeroBudgetAnswersPending ==
  \A r \in responses :
    (r.route = "log" /\ r.waitMs = 0) =>
      /\ r.pending
      /\ r.consensus = Null
      /\ r.first = "none"

\* A request answered under budget 0 whose submission the ledger accepted.
C9_Witness ==
  \E r \in responses :
    r.route = "log" /\ r.waitMs = 0 /\ r.anchoring /\ Anchored(r.did)

(***************************************************************************)
(* C10: the DecisionLog never holds more than DECISION_HISTORY_LIMIT       *)
(* decisions, and it is always the most recently recorded ones, in the     *)
(* order they were recorded: eviction removes the oldest.                  *)
(***************************************************************************)
C10_RetentionBound ==
  LET n == IF Len(inserted) < DECISION_HISTORY_LIMIT
           THEN Len(inserted) ELSE DECISION_HISTORY_LIMIT
  IN  /\ Len(decisions) <= DECISION_HISTORY_LIMIT
      /\ Ids(decisions) =
           Ids(SubSeq(inserted, Len(inserted) - n + 1, Len(inserted)))

\* One more decision than the limit was recorded, by both routes, and the
\* first one is gone.
C10_Witness ==
  /\ Len(inserted) = DECISION_HISTORY_LIMIT + 1
  /\ Len(decisions) = DECISION_HISTORY_LIMIT
  /\ decisions[1].id = 2
  /\ decisions[Len(decisions)].id = DECISION_HISTORY_LIMIT + 1
  /\ \E r1, r2 \in responses :
       r1.route = "infer" /\ r1.status = 200 /\ r2.route = "log"


(***************************************************************************)
(* C11: without agent filter and limit, GET /decisions/latest answers with *)
(* exactly one entry for each group of DecisionLog entries that have the   *)
(* same agent and the same location compared without regard to case (an    *)
(* entry without location belongs to the group of the unknown location),   *)
(* and that entry is one of the group with the greatest ts, wherever in    *)
(* the log the older and newer entries of the group sit.                   *)
(***************************************************************************)
UnfilteredReads ==
  IF lastAnswer # Null /\ lastAnswer.route = "latest"
     /\ lastAnswer.agentFilter = "" /\ lastAnswer.limit = 0
  THEN {lastAnswer} ELSE {}

\* The group of an entry: agent and location without regard to case.
GroupOf(e) ==
  <<e.agent,
    CASE e.location \in {"A", "a"} -> "a"
      [] e.location \in {"B", "b"} -> "b"
      [] e.location = "" -> "__unknown__"
      [] OTHER -> e.location>>

C11_OnePerCaseFoldedGroup ==
  \A r \in UnfilteredReads :
    LET log == r.log
        items == r.items
    IN  /\ \A i \in 1..Len(log) :
             Cardinality({j \in 1..Len(items) :
                            GroupOf(items[j]) = GroupOf(log[i])}) = 1
        /\ \A j \in 1..Len(items) :
             /\ \E i \in 1..Len(log) :
                  /\ log[i].id = items[j].id
                  /\ log[i].agent = items[j].agent
                  /\ log[i].location = items[j].location
                  /\ log[i].ts = items[j].ts
             /\ \A i \in 1..Len(log) :
                  GroupOf(log[i]) = GroupOf(items[j]) =>
                    log[i].ts <= items[j].ts

\* The statement with the pairs taken as they are stored: one entry for
\* each (agent, location) pair present in the log, of the greatest ts of
\* the pair.
C11_OnePerStoredPair ==
  \A r \in UnfilteredReads :
    \A i \in 1..Len(r.log) :
      LET mine == {j \in 1..Len(r.items) :
                     /\ r.items[j].agent = r.log[i].agent
                     /\ r.items[j].location = r.log[i].location}
      IN  /\ Cardinality(mine) = 1
          /\ \A j \in mine : r.log[i].ts <= r.items[j].ts

\* A read of a log in which a newer entry of a group precedes an older one
\* that spells the location in another case.
C11_Witness ==
  \E r \in UnfilteredReads :
    /\ Len(r.log) >= 2
    /\ r.log[1].location = "A" /\ r.log[2].location = "a"
    /\ r.log[1].agent = r.log[2].agent
    /\ r.log[1].ts > r.log[2].ts
    /\ Len(r.items) = 1 /\ r.items[1].id = r.log[1].id

(***************************************************************************)
(* C12: a report of tickSupervisor holds the closed-barrier anomaly        *)
(* exactly when both summaries are present, the barrier state is CLOSED    *)
(* and the north-south signal is green.  It holds three more anomalies:    *)
(* barrier OPEN while east-west is green and north-south red, and one for  *)
(* each summary whose source is the fallback; ok is true, with an empty    *)
(* list, exactly when none of the four conditions holds.                   *)
(***************************************************************************)
\* The reports tickSupervisor has returned.
Reports ==
  IF loop.report # Null /\ loop.report # [threw |-> TRUE]
  THEN {loop.report} ELSE {}

ClosedWhileNsGreen(r) ==
  /\ r.traffic # Null /\ r.rail # Null
  /\ r.rail.command.state = "CLOSED" /\ r.traffic.plan.ns = "green"

OpenWhileEwFlows(r) ==
  /\ r.traffic # Null /\ r.rail # Null
  /\ r.rail.command.state = "OPEN"
  /\ r.traffic.plan.eo = "green" /\ r.traffic.plan.ns = "red"

InFallbackMode(r) ==
  \/ r.traffic # Null /\ r.traffic.source = "fallback"
  \/ r.rail # Null /\ r.rail.source = "fallback"

Has(r, anomaly) == \E i \in 1..Len(r.anomalies) : r.anomalies[i] = anomaly

C12_SupervisorAnomalies ==
  \A r \in Reports :
    /\ Has(r, "Barrier closed while north-south lights are green.")
         <=> ClosedWhileNsGreen(r)
    /\ Has(r, "Barrier open while east-west traffic flows; verify interlocks.")
         <=> OpenWhileEwFlows(r)
    /\ Has(r, "Traffic controller in fallback mode.") <=>
         (r.traffic # Null /\ r.traffic.source = "fallback")
    /\ Has(r, "Rail controller in fallback mode.") <=>
         (r.rail # Null /\ r.rail.source = "fallback")
    /\ r.ok <=> (r.anomalies = <<>>)
    /\ r.ok <=> ~(ClosedWhileNsGreen(r) \/ OpenWhileEwFlows(r)
                  \/ InFallbackMode(r))

\* The statement with the closed-barrier rule as the only one: an anomaly
\* exactly when the barrier is CLOSED and north-south is green, else ok
\* and an empty list.
C12_AnomalyOnlyWhenClosedNsGreen ==
  \A r \in Reports :
    /\ (r.anomalies # <<>>) <=> ClosedWhileNsGreen(r)
    /\ ~ClosedWhileNsGreen(r) => r.ok

\* tickSupervisor returned a report on two policy decisions, barrier open
\* and east-west flowing, after its message went to the ledger.
C12_Witness ==
  \E r \in Reports :
    /\ logsToLedger
    /\ OpenWhileEwFlows(r) /\ ~InFallbackMode(r)
    /\ ~r.ok
    /\ r.anomalies =
         <<"Barrier open while east-west traffic flows; verify interlocks.">>

(***************************************************************************)
(* C13: in one invocation of loop() the batch of an agent kind dequeues    *)
(* at most batchLimit measurements of that kind (12 for traffic, 4 for     *)
(* rail); every dequeue of the kind is one the batch made; the batch is    *)
(* over in the very step in which a tick finds the queue empty, which      *)
(* leaves the queue as it is: loop() does not wait for a measurement.      *)
(***************************************************************************)
C13_BatchWithinLimit ==
  /\ loop.pc \in Kinds => loop.processed <= loop.dequeued[loop.pc]
  /\ \A k \in Kinds :
       /\ loop.dequeued[k] <= batchLimit(k)
       /\ loop.sawEmpty[k] => loop.pc # k

C13_BatchStep ==
  \A k \in Kinds :
    LET got(d) == Cardinality({i \in 1..Len(d) : d[i].kind = k})
    IN  /\ got(delivered') # got(delivered) =>
             /\ got(delivered') = got(delivered) + 1
             /\ loop.pc = k /\ ~loop.awaiting
             /\ loop'.dequeued[k] = loop.dequeued[k] + 1
        /\ (loop.pc = k /\ ~loop.awaiting /\ loop' # loop
            /\ nextItem(measurements, k) = Null) =>
             /\ loop'.pc = afterBatch(k)
             /\ measurements' = measurements

C13_DrainToEmptyOrLimit == []C13_BatchWithinLimit /\ [][C13_BatchStep]_vars

\* The traffic batch stopped at its limit with a measurement left in the
\* queue, and the rail batch stopped at an empty queue after two.
C13_Witness ==
  /\ loop.pc = "supervisor"
  /\ loop.dequeued["traffic"] = MAX_TRAFFIC_BATCH
  /\ nextItem(measurements, "traffic") # Null
  /\ loop.dequeued["rail"] = 2 /\ loop.sawEmpty["rail"]

(***************************************************************************)
(* C14: whatever the queue values ns and ew of the measurement, the plan   *)
(* the traffic FallbackPolicy decides has north-south green and east-west  *)
(* red when ns >= ew (a tie favours north-south), else north-south red     *)
(* and east-west green; its duration is 30 when the larger queue exceeds   *)
(* 20 and 15 otherwise.  ns = 25, ew = 10 gives green, red, 30.            *)
(***************************************************************************)
C14_TrafficFallbackRule ==
  LET t == tick["traffic"]
  IN  (t.item # Null /\ t.decisionSource = "fallback") =>
        LET ns == t.item.value.queue_ns
            ew == t.item.value.queue_ew
        IN  /\ ns >= ew => t.outcome.ns = "green" /\ t.outcome.eo = "red"
            /\ ns < ew => t.outcome.ns = "red" /\ t.outcome.eo = "green"
            /\ (ns > 20 \/ ew > 20) => t.outcome.durationSec = 30
            /\ (ns <= 20 /\ ew <= 20) => t.outcome.durationSec = 15
            /\ (ns = 25 /\ ew = 10) =>
                 t.outcome = [ns |-> "green", eo |-> "red", durationSec |-> 30]
            /\ controller["traffic"] \in {Null, t.outcome}

\* The tick on a tie at the threshold has applied its plan.
C14_Witness ==
  LET t == tick["traffic"]
  IN  /\ t.pc = "done" /\ t.decisionSource = "fallback"
      /\ t.item.value = [queue_ns |-> 20, queue_ew |-> 20]
      /\ t.outcome = [ns |-> "green", eo |-> "red", durationSec |-> 15]
      /\ controller["traffic"] = t.outcome

(***************************************************************************)
(* C15: whatever the ETA of the measurement, the rail FallbackPolicy       *)
(* decides a command: CLOSED when the ETA is at most 20000 and OPEN when   *)
(* it is larger, never CLOSING or OPENING.  An ETA of 18000 gives CLOSED,  *)
(* one of 25000 gives OPEN.                                                *)
(***************************************************************************)
C15_RailFallbackRule ==
  LET t == tick["rail"]
  IN  (t.item # Null /\ t.decisionSource = "fallback") =>
        LET eta == t.item.value.eta_ms
        IN  /\ t.outcome \in {[state |-> "CLOSED"], [state |-> "OPEN"]}
            /\ (t.outcome.state = "CLOSED") <=> (eta <= 20000)
            /\ eta = 18000 => t.outcome.state = "CLOSED"
            /\ eta = 25000 => t.outcome.state = "OPEN"
            /\ controller["rail"] \in {Null, t.outcome}

\* The tick on an ETA equal to closeLeadMs has closed the barrier.
C15_Witness ==
  LET t == tick["rail"]
  IN  /\ t.pc = "done" /\ t.decisionSource = "fallback"
      /\ t.item.value.eta_ms = 20000
      /\ t.outcome.state = "CLOSED"
      /\ controller["rail"] = t.outcome

(***************************************************************************)
(* C16: GET /ingest/snapshot is read-only: the step in which it answers,   *)
(* whatever the kind and the limit, leaves the pending queue, the recent   *)
(* history and the latest-by-location map as they were, so that what GET   *)
(* /ingest/next returns next for any kind is what it would have returned   *)
(* without the snapshot.                                                   *)
(***************************************************************************)
C16_SnapshotStep ==
  (lastAnswer' # lastAnswer /\ lastAnswer'.route = "snapshot") =>
    /\ measurements' = measurements
    /\ recent' = recent
    /\ latestByLocation' = latestByLocation
    /\ \A k \in Kinds :
         nextItem(measurements', k) = nextItem(measurements, k)

C16_SnapshotReadOnly == [][C16_SnapshotStep]_vars

\* A snapshot listed a history while measurements were pending, and one of
\* them has been dequeued since.
C16_Witness ==
  /\ lastAnswer # Null /\ lastAnswer.route = "snapshot"
  /\ lastAnswer.history # <<>>
  /\ lastAnswer.pending > Len(measurements)
  /\ delivered # <<>>

(***************************************************************************)
(* C17: after any ingests, dequeues and snapshots, the `latest` part of a  *)
(* snapshot of a kind has exactly one entry for each location that a       *)
(* measurement of the kind was ever ingested for, and that entry is made   *)
(* from the measurement ingested last for the kind and location, dequeued  *)
(* or not.                                                                 *)
(***************************************************************************)
\* The recent history of a kind is the kind's ingests, in order.
C17_HistoryIsIngests == \A k \in Kinds : Ids(recent[k]) = ingested[k]

C17_SnapshotStep ==
  (lastAnswer' # lastAnswer /\ lastAnswer'.route = "snapshot") =>
    LET hist == recent[lastAnswer'.kind]
        latest == lastAnswer'.latest
        lastAt(l) == CHOOSE i \in 1..Len(hist) :
                       /\ hist[i].location = l
                       /\ \A j \in (i + 1)..Len(hist) : hist[j].location # l
    IN  /\ \A i \in 1..Len(hist) :
             /\ Cardinality({e \in latest :
                               e.location = hist[i].location}) = 1
             /\ \E e \in latest :
                  /\ e.location = hist[i].location
                  /\ e.id = hist[lastAt(hist[i].location)].id
                  /\ e.details = hist[lastAt(hist[i].location)].value
        /\ \A e \in latest : \E i \in 1..Len(hist) :
             hist[i].location = e.location

C17_LatestPerLocation ==
  []C17_HistoryIsIngests /\ [][C17_SnapshotStep]_vars

\* A snapshot taken when every measurement had been dequeued lists three
\* measurements in its history and the latest of two locations.
C17_Witness ==
  /\ lastAnswer # Null /\ lastAnswer.route = "snapshot"
  /\ lastAnswer.pending = 0
  /\ Len(lastAnswer.history) = 3
  /\ Cardinality(lastAnswer.latest) = 2
  /\ \E e \in lastAnswer.latest : e.id = lastAnswer.history[3].id

(***************************************************************************)
(* C18: a POST /ingest whose body lacks kind, location or value is         *)
(* answered with an error and leaves the pending queue, the recent history *)
(* and the latest-by-location map unchanged; what the store holds has a    *)
(* kind, a location and a value.                                           *)
(***************************************************************************)
C18_StoredComplete ==
  /\ \A i \in 1..Len(measurements) :
       /\ measurements[i].kind # "" /\ measurements[i].location # ""
       /\ measurements[i].value # Null
  /\ \A k \in Kinds : \A i \in 1..Len(recent[k]) :
       /\ recent[k][i].kind = k /\ recent[k][i].location # ""
       /\ recent[k][i].value # Null

C18_RefusedStep ==
  /\ (lastAnswer' # lastAnswer /\ lastAnswer'.route = "ingest") =>
       /\ lastAnswer'.status = 400
       /\ \/ lastAnswer'.kind = "" \/ lastAnswer'.location = ""
          \/ lastAnswer'.value = Null
       /\ measurements' = measurements
       /\ recent' = recent
       /\ latestByLocation' = latestByLocation
  /\ measurements' # measurements /\ Len(measurements') > Len(measurements)
       => lastAnswer' = lastAnswer

C18_IncompleteIngestRejected ==
  []C18_StoredComplete /\ [][C18_RefusedStep]_vars

\* A body without a location was refused after two measurements had been
\* stored.
C18_Witness ==
  /\ lastAnswer # Null /\ lastAnswer.route = "ingest"
  /\ lastAnswer.status = 400
  /\ lastAnswer.kind # "" /\ lastAnswer.location = ""
  /\ lastAnswer.value # Null
  /\ Len(measurements) = 2

(***************************************************************************)
(* C19: without operator credentials submitDecisionToConsensus resolves    *)
(* to null at once: no submission is in flight, no topic is created or     *)
(* cached, the ledger gets no message; no route answers with an error on   *)
(* that account (the only error answer is the 502 of an inference route    *)
(* whose oracle gave no answer), and every decision is recorded in the     *)
(* DecisionLog with empty consensus fields.                                *)
(***************************************************************************)
C19_DisabledAnchoringIsNormal ==
  ~credentials =>
    /\ subs = {}
    /\ ledger = <<>>
    /\ topicsCreated = 0
    /\ \A k \in Kinds : topicCache[k] = 0
    /\ \A r \in responses :
         /\ r.consensus = Null
         /\ r.status # 200 => r.route = "infer" /\ r.status = 502
         /\ r.status = 200 =>
              /\ Recorded(r.did)
              /\ RecordedAs(r.did).topicId = 0
              /\ RecordedAs(r.did).sequenceNumber = 0
              /\ RecordedAs(r.did).consensusTimestamp = 0
    /\ Len(inserted) = Cardinality({r \in responses : r.status = 200})

\* Without credentials, POST /decisions/log and an inference route have
\* each answered 200 and recorded their decision.
C19_Witness ==
  /\ ~credentials
  /\ Len(decisions) = 2
  /\ \E r1, r2 \in responses :
       /\ r1.route = "log" /\ r1.status = 200
       /\ r2.route = "infer" /\ r2.status = 200

(***************************************************************************)
(* C20: no failure of a dependency stops the loop.  After the backend was  *)
(* unreachable at a dequeue, an inference route failed, the controller     *)
(* refused, the decision-log post failed or the supervisor's ledger call   *)
(* threw, the invocation of loop() comes to its end; and from there the    *)
(* timer starts the next one, which calls the traffic tick, then the rail  *)
(* tick, then the supervisor, and so on for ever.                          *)
(***************************************************************************)
DependencyFailed ==
  \/ \E k \in Kinds : loop.threw[k]
  \/ \E k \in Kinds : tick[k].primary = "error" \/ tick[k].secondary = "error"
  \/ \E k \in Kinds : tick[k].actuation = "failed"
  \/ \E k \in Kinds :
       tick[k].pc = "done" /\ tick[k].posted # Null /\ tick[k].rid = 0
  \/ loop.report = [threw |-> TRUE]

C20_FailuresDoNotStopLoop ==
  /\ DependencyFailed ~> (loop.pc = "idle")
  /\ (loop.pc = "idle") ~> (loop.pc = "traffic")
  /\ (loop.pc = "traffic") ~> (loop.pc = "rail")
  /\ (loop.pc = "rail") ~> (loop.pc = "supervisor")
  /\ (loop.pc = "supervisor") ~> (loop.pc = "idle")

\* An invocation in which the dequeue of one kind failed, the routes, the
\* controller and the log post of the other kind's tick failed and the
\* supervisor's ledger call threw is over.
C20_Witness ==
  /\ loop.pc = "idle"
  /\ loop.threw["traffic"]
  /\ loop.rail # Null /\ loop.rail.source = "fallback"
  /\ controller["rail"] = Null
  /\ loop.report = [threw |-> TRUE]

(***************************************************************************)
(* C21: measurements of one kind are processed one at a time over the     *)
(* whole run of the periodic loop.                                         *)
(***************************************************************************)
\* A tick function holds a measurement it dequeued and has not returned.
InProcessing(t) == t.pc \notin {"idle", "done"}

\* C21: at no time are two measurements of the same kind in processing,
\* also when the timer fires while an earlier invocation's tick awaits an
\* external call.  The code does not keep this: setInterval starts loop()
\* again and its tick dequeues the next measurement of the kind.
C21_OneTickPerKind ==
  \A k \in Kinds :
    ~(parked # Null /\ InProcessing(tick[k]) /\ InProcessing(parked.tick[k]))

(***************************************************************************)
(* C22: the traffic batch and the rail batch do not wait for each other.   *)
(***************************************************************************)
\* loop() can call the tick of `kind` now.
CanStartTick(kind) ==
  ENABLED (\E reachable \in BOOLEAN, received \in BOOLEAN :
             LoopCallTick(kind, reachable, received))

\* An invocation of loop() awaits a tick of `kind` that awaits an external
\* call.
AwaitsTickOf(kind) ==
  loop.pc = kind /\ loop.awaiting /\ InProcessing(tick[kind])

\* C22: a traffic tick that awaits a slow call does not hold back the rail
\* processing of its interval, nor a rail tick the traffic processing:
\* while one kind's tick awaits, the pending measurement of the other kind
\* is in processing or its tick can start.  The code does not keep this:
\* one loop() awaits the whole traffic batch before its first tickRail.
C22_BatchesIndependent ==
  \A k \in Kinds, other \in Kinds :
    (k # other /\ AwaitsTickOf(k) /\ loop.dequeued[other] = 0
     /\ ~loop.sawEmpty[other] /\ ~loop.threw[other]
     /\ nextItem(measurements, other) # Null)
    => (InProcessing(tick[other]) \/ CanStartTick(other))

(***************************************************************************)
(* C23: the remembered phase and barrier state.                            *)
(***************************************************************************)
\* In this step the tick of `kind` starts on a measurement it received.
StartsOn(kind) ==
  tick'[kind].item # Null /\ tick'[kind].item # tick[kind].item

\* In this step the tick of `kind` leaves its inference routes: the outcome
\* of the measurement is produced.
LeavesRoutes(kind) ==
  /\ StartsOn(kind) \/ tick[kind].pc \in {"primary", "secondary"}
  /\ tick'[kind].pc \in {"actuate", "log", "done"}

\* In this step the tick of `kind` runs to its end.
Finishes(kind) == tick[kind].pc # "done" /\ tick'[kind].pc = "done"

C23_Initial ==
  delivered = <<>> => lastPhase = "NS" /\ lastBarrierState = "OPEN"

C23_Step ==
  IF parked' # parked
  THEN lastPhase' = lastPhase /\ lastBarrierState' = lastBarrierState
  ELSE /\ lastPhase' =
            IF LeavesRoutes("traffic")
            THEN (IF tick'["traffic"].outcome.ns = "green" THEN "NS" ELSE "EW")
            ELSE lastPhase
       /\ lastBarrierState' =
            IF Finishes("rail")
            THEN (IF tick'["rail"].outcome.state = "CLOSED" THEN "CLOSED"
                  ELSE "OPEN")
            ELSE lastBarrierState
       /\ (StartsOn("traffic") /\ tick'["traffic"].observation # Null)
          => (tick'["traffic"].observation.is_ns_green = 1
              <=> lastPhase = "NS")
       /\ (StartsOn("rail") /\ tick'["rail"].observation # Null)
          => (tick'["rail"].observation.barrier_closed = 1
              <=> lastBarrierState = "CLOSED")

AgentOfDecision(did) ==
  LET i == CHOOSE j \in 1..Len(inserted) : inserted[j].id = did
  IN  inserted[i].agent

\* The topics the agent's submissions have used or are about to use.
TopicsOf(agent) ==
  {ledger[i].topicId : i \in {j \in 1..Len(ledger) :
      /\ \E n \in 1..Len(inserted) : inserted[n].id = ledger[j].did
      /\ AgentOfDecision(ledger[j].did) = agent}}
  \cup {sub.topicId : sub \in {s \in subs : s.agent = agent
                                           /\ s.stage = "msg"}}
  \cup ({topicCache[agent]} \ {0})

\* C24: over any interleaving of submissions, also two in flight before the
\* first topic creation completes, an agent's messages all go to one topic
\* and at most one topic is created for it.  The code does not keep this:
\* ensureTopic writes the cache only after the creation it awaits.
C24_OneTopicPerAgent ==
  \A agent \in Kinds : Cardinality(TopicsOf(agent)) <= 1

(***************************************************************************)
(* C25: a measurement whose observation cannot be built.                   *)
(***************************************************************************)
\* The tick of `kind` holds a measurement whose observation was refused.
ObservationFailed(kind) ==
  tick[kind].item # Null /\ tick[kind].observation = Null

\* C25: when the observation cannot be built, for traffic as for rail, no
\* inference route is attempted, the outcome is the fallback's, and the
\* decision the tick posts carries a failure reason.  The code does not keep
\* the last part for traffic: its catch only warns.
C25_ObservationFailureRecorded ==
  \A k \in Kinds :
    ObservationFailed(k) =>
      /\ tick[k].primary = "none" /\ tick[k].secondary = "none"
      /\ tick[k].outcome = fallbackOutcome(k, tick[k].item.value)
      /\ tick[k].decisionSource = "fallback"
      /\ tick[k].failureReasons # <<>>
      /\ tick[k].posted # Null => tick[k].posted.failures # <<>>

(***************************************************************************)
(* C26: the failed routes' reason codes in the recorded decision.          *)
(***************************************************************************)
\* The reason codes of the inference routes that failed in the tick, in the
\* order the routes are tried.
FailedRouteCodes(t) ==
  (IF t.primary \in {"error", "invalid"}
   THEN <<"backend_inference_error">> ELSE <<>>)
  \o (IF t.secondary = "error" THEN <<"direct_inference_error">> ELSE <<>>)

IsRouteCode(code) ==
  code \in {"backend_inference_error", "direct_inference_error"}

\* The decisions recorded for the measurement the tick of `kind` processed
\* (the run has one measurement per kind at most).
RecordedFor(kind) ==
  {i \in 1..Len(inserted) : inserted[i].agent = kind}

\* C26: once a tick has ended, every decision recorded for its measurement
\* lists the reason codes of the routes that failed, in order.  The code
\* does not keep this when the backend has recorded the decision itself.
C26_RouteFailuresRecorded ==
  \A k \in Kinds :
    (tick[k].pc = "done" /\ tick[k].item # Null) =>
      \A i \in RecordedFor(k) :
        SelectSeq(inserted[i].failures, IsRouteCode)
          = FailedRouteCodes(tick[k])

(***************************************************************************)
(* C27: one decision per dequeued measurement.                             *)
(***************************************************************************)
\* C27: once the tick that processed a measurement has ended, the
\* DecisionLog has received exactly one decision for it.  The code does not
\* keep this: a log post that fails leaves none, and a primary request the
\* tick gave up on while the backend went on leaves two.
C27_ExactlyOneDecision ==
  \A k \in Kinds :
    (tick[k].pc = "done" /\ tick[k].item # Null) =>
      Cardinality(RecordedFor(k)) = 1

(***************************************************************************)
(* C28: the log shows the outcome the agent applied.                       *)
(***************************************************************************)
\* C28: once the tick that processed a measurement has ended, every
\* decision the DecisionLog holds for it has the outcome the tick applied.
\* The code does not keep this: the backend's infer handler records the
\* oracle's outcome before the tick validates it.
C28_LogShowsAppliedOutcome ==
  \A k \in Kinds :
    (tick[k].pc = "done" /\ tick[k].item # Null) =>
      \A i \in 1..Len(decisions) :
        decisions[i].agent = k => decisions[i].decision = tick[k].outcome

(***************************************************************************)
(* C29: the anomalies of tickSupervisor.                                   *)
(***************************************************************************)
\* The anomaly `text` if its condition holds.
When(condition, text) == IF condition THEN <<text>> ELSE <<>>

\* C29: the list a report carries has one anomaly for each of the four
\* conditions that holds on its summaries, in the order closed barrier,
\* open barrier, traffic fallback, rail fallback, each once and nothing
\* else; ok is true exactly when the list is empty.
C29_OneAnomalyPerCondition ==
  \A r \in Reports :
    /\ r.anomalies =
         When(ClosedWhileNsGreen(r),
              "Barrier closed while north-south lights are green.")
         \o When(OpenWhileEwFlows(r),
              "Barrier open while east-west traffic flows; verify interlocks.")
         \o When(r.traffic # Null /\ r.traffic.source = "fallback",
              "Traffic controller in fallback mode.")
         \o When(r.rail # Null /\ r.rail.source = "fallback",
              "Rail controller in fallback mode.")
    /\ r.ok = (Len(r.anomalies) = 0)

\* A report on a closed barrier under a green north-south light, both
\* decided by the fallback: three anomalies.
C29_Witness ==
  \E r \in Reports :
    /\ ClosedWhileNsGreen(r)
    /\ r.traffic.source = "fallback" /\ r.rail.source = "fallback"
    /\ Len(r.anomalies) = 3 /\ ~r.ok

(***************************************************************************)
(* C30: tickSupervisor and a failing ledger.                               *)
(***************************************************************************)
\* C30: tickSupervisor never fails: whatever the summaries and whatever the
\* ledger does with the message, the call ends with a report {ok,
\* anomalies}.  The code does not keep this: hedera_log_decision's rejection
\* is tickSupervisor's.
C30_SupervisorAlwaysReports ==
  (loop.pc = "idle" /\ loop.report # Null) =>
    /\ loop.report # [threw |-> TRUE]
    /\ loop.report.ok \in BOOLEAN

(***************************************************************************)
(* C31: GET /ingest/next changes the pending queue only.                   *)
(***************************************************************************)
\* The measurement is in the recent history of its kind.
InHistory(m) == \E i \in 1..Len(recent[m.kind]) : recent[m.kind][i] = m

\* The cache holds the measurement for its location, or a newer one.
LatestIsOrFollows(m) ==
  /\ latestByLocation[m.kind][m.location] # Null
  /\ latestByLocation[m.kind][m.location].id >= m.id

C31_DequeueStep ==
  dequeueCalls' # dequeueCalls =>
    recent' = recent /\ latestByLocation' = latestByLocation

C31_DequeuedStillShown ==
  \A i \in 1..Len(delivered) :
    InHistory(delivered[i].item) /\ LatestIsOrFollows(delivered[i].item)

\* C31: a call of GET /ingest/next leaves the recent history and the
\* latest-by-location map as they were, and (below the history's capacity)
\* every measurement handed out is still in the history of its kind, and
\* the cache holds it or a newer measurement of its location.
C31_DequeueLeavesProjections ==
  []C31_DequeuedStillShown /\ [][C31_DequeueStep]_vars

\* A traffic measurement has been handed out, the pending queue is empty,
\* and the cache still holds that measurement for its location.
C31_Witness ==
  /\ measurements = <<>>
  /\ \E i \in 1..Len(delivered) :
       /\ delivered[i].kind = "traffic"
       /\ latestByLocation["traffic"][delivered[i].item.location]
            = delivered[i].item
       /\ InHistory(delivered[i].item)

(***************************************************************************)
(* C32: the recent history keeps the last 200 measurements of a kind.      *)
(***************************************************************************)
\* The last min(Len(s), n) elements of s.
LastOf(s, n) == SubSeq(s, Max(1, Len(s) - n + 1), Len(s))

\* C32: after any sequence of ingests the recent history of a kind holds at
\* most 200 measurements, and they are the last min(n, 200) measurements
\* ingested for that kind, in ingestion order.
C32_HistoryIsLastIngested ==
  \A k \in Kinds :
    /\ Len(recent[k]) <= 200
    /\ Ids(recent[k]) = LastOf(ingested[k], 200)

\* More than 200 traffic measurements have been ingested.
C32_Witness ==
  /\ Len(ingested["traffic"]) > 200
  /\ Len(recent["traffic"]) = 200
  /\ recent["traffic"][200].id = nextMid - 1

(***************************************************************************)
(* C34: the pending queue is bounded.                                      *)
(***************************************************************************)
\* The number of measurements of `kind` ingested and not yet dequeued.
PendingCount(kind) ==
  Cardinality({i \in 1..Len(measurements) : measurements[i].kind = kind})

\* C34: the number of pending measurements of a kind never exceeds a fixed
\* capacity, here the one capacity the store has, that of the recent
\* history.  The code does not keep this, for this capacity or any other:
\* POST /ingest pushes onto mem.measurements whatever its length.
C34_PendingWithinCapacity ==
  \A k \in Kinds : PendingCount(k) <= RECENT_KEEP

(***************************************************************************)
(* C38: pending only when a submission is in flight.                       *)
(***************************************************************************)
\* C38: an answer of POST /decisions/log says pending only if a ledger
\* submission was started for the decision; with anchoring disabled it says
\* pending=false for every wait budget.  The code does not keep this for a
\* wait budget of 0.
C38_PendingOnlyWhenSubmitted ==
  \A r \in responses :
    (r.route = "log" /\ r.status = 200 /\ ~r.anchoring) => ~r.pending

(***************************************************************************)
(* C33: a recorded decision changes in its consensus fields only.          *)
(***************************************************************************)
\* The entry without its consensus fields.
NonConsensus(e) ==
  [e EXCEPT !.topicId = 0, !.sequenceNumber = 0, !.consensusTimestamp = 0]

C33_Step ==
  \A i \in 1..Len(decisions) : \A j \in 1..Len(decisions') :
    decisions[i].id = decisions'[j].id =>
      /\ NonConsensus(decisions'[j]) = NonConsensus(decisions[i])
      /\ decisions'[j] # decisions[i] =>
           /\ decisions[i].topicId = 0
           /\ \E sub \in subs :
                /\ sub.did = decisions[i].id /\ sub.stage = "msg"
                /\ subs' = subs \ {sub}
                /\ decisions'[j].topicId = sub.topicId

\* C33: in every step (a record call, a late consensus completion, a read
\* of the latest decisions) each Decision that stays in the log keeps every
\* field but topicId, sequenceNumber and consensusTimestamp, and those
\* change only for the Decision whose submission completes in that step.
C33_RecordedDecisionFrozen == [][C33_Step]_vars

\* The log holds two decisions, recorded without consensus fields; a late
\* completion has filled the first one's and not the second's, and the
\* latest decisions have been read.
C33_Witness ==
  /\ Len(decisions) = 2 /\ Len(inserted) = 2
  /\ inserted[1].topicId = 0
  /\ decisions[1].topicId # 0 /\ decisions[2].topicId = 0
  /\ lastAnswer # Null /\ lastAnswer.route = "latest"

(***************************************************************************)
(* C35: the DecisionLog in timestamp order.                                *)
(***************************************************************************)
\* C35: the entries of the log are in non-decreasing timestamp order.  The
\* code does not keep this: the log is in the order of the record calls,
\* and POST /decisions/log takes the timestamp from the request.
C35_LogTimeOrdered ==
  \A i, j \in 1..Len(decisions) :
    i < j => decisions[i].ts <= decisions[j].ts

(***************************************************************************)
(* C36: the source of the decisions the pipeline stores.                   *)
(***************************************************************************)
\* C36: every Decision the ticks cause to be stored, through the primary
\* route or through POST /decisions/log, has the source 'policy' or
\* 'fallback'.  The code does not keep this on the primary route: the
\* backend stores the request's own source, which is 'agent'.
C36_SourcePolicyOrFallback ==
  \A i \in 1..Len(inserted) : inserted[i].source \in {"policy", "fallback"}

(***************************************************************************)
(* C37: the metric of a measurement.                                       *)
(***************************************************************************)
\* The congestion-, queue- and wait-like fields of a payload of the model.
LoadFields(data) ==
  DOMAIN data \cap {"congestion", "queue_ns", "queue_ew", "wait_ns"}

\* C37: the metric of a traffic payload is the largest of all its
\* congestion-, queue- and wait-like fields (queue_ns = 5 and wait_ns = 50
\* give 50), the metric of a rail payload is its ETA, and a payload with no
\* such field (and, for traffic, no progress) has no metric.  The code does
\* not keep the first part: it looks at the wait fields only when no
\* congestion, queue or progress field is there.
C37_MetricIsMaxOfLoadFields ==
  (lastAnswer # Null /\ lastAnswer.route = "metric") =>
    LET data == lastAnswer.data
    IN  /\ (lastAnswer.kind = "traffic" /\ LoadFields(data) # {}) =>
             /\ Len(lastAnswer.metric) = 1
             /\ \E f \in LoadFields(data) : lastAnswer.metric[1] = data[f]
             /\ \A f \in LoadFields(data) : lastAnswer.metric[1] >= data[f]
        /\ (lastAnswer.kind = "traffic" /\ LoadFields(data) = {}
            /\ "progress" \notin DOMAIN data) => lastAnswer.metric = <<>>
        /\ (lastAnswer.kind = "rail" /\ "eta_ms" \in DOMAIN data) =>
             lastAnswer.metric = <<data.eta_ms>>
        /\ (lastAnswer.kind = "rail" /\ "eta_ms" \notin DOMAIN data) =>
             lastAnswer.metric = <<>>

(***************************************************************************)
(* C39: the supervisor and the commands of earlier iterations.             *)
(***************************************************************************)
\* A command of `kind` has been issued: more measurements were handed to
\* its ticks than ticks have thrown, and no tick is at work.
Commanded(kind) ==
  /\ Len(SelectKind(delivered, kind)) > loop.throws
  /\ ~InProcessing(tick[kind])

\* C39: when loop() has ended with the supervisor's report while the last
\* commanded barrier state is CLOSED and the last commanded plan has
\* north-south green, the report has the closed-barrier anomaly, whichever
\* iteration issued the commands.  The code does not keep this: the
\* supervisor sees the summaries of the current iteration only.
C39_ClosedWhileGreenReported ==
  \A r \in Reports :
    (loop.pc = "idle" /\ Commanded("traffic") /\ Commanded("rail")
     /\ lastBarrierState = "CLOSED" /\ lastPhase = "NS")
    => Has(r, "Barrier closed while north-south lights are green.")

(***************************************************************************)
(* C40: the periodic loop drains the queue.                                *)
(***************************************************************************)
\* The measurement `id` waits in the queue for the traffic or rail agent.
Pending(id) ==
  \E i \in 1..Len(measurements) :
    measurements[i].id = id /\ measurements[i].kind \in Kinds

\* The ids a measurement of the backlog or of POST /ingest can carry.
DrainIds == (0 - (MAX_RAIL_BATCH + 2))..MaxIngest

\* C40: every pending traffic or rail measurement is eventually dequeued,
\* when ingestion stops, the backend answers and the timer keeps firing:
\* neither measurements of another kind ahead of it in the queue nor a
\* batch cut short by the batch limit keep it pending for ever.
C40_EventuallyDequeued ==
  \A id \in DrainIds : Pending(id) ~> ~Pending(id)

\* The rail backlog was longer than one batch and has all been handed out,
\* together with whatever else was pending, while the measurement of the
\* other kind still heads the queue.
C40_Witness ==
  /\ Len(SelectKind(delivered, "rail")) > MAX_RAIL_BATCH
  /\ SelectKind(delivered, "traffic") # <<>>
  /\ measurements # <<>> /\ measurements[1].kind = "weather"
  /\ \A id \in DrainIds : ~Pending(id)
  /\ nextMid > MaxIngest
=============================================================================
